---- MODULE Spec2Model ----
(***************************************************************************)
(* Order lifecycle and status reconciliation of the storefront client:     *)
(* the remote orders table, the useOrders hook as used by operator         *)
(* sessions (OrderManager), the pending-order trackers (OrderStatusContext,*)
(* MainApp, Menu, GameItemOrderModal) and the OrderStatusModal dialog.     *)
(***************************************************************************)
EXTENDS Integers, Sequences, FiniteSets, TLC

(***************************************************************************)
(* Bounds                                                                  *)
(***************************************************************************)
MaxOrders == 2      \* orders the remote store ever holds
NumOps == 2         \* operator sessions (browser tabs on /admin)
MaxOpInflight == 1  \* page fetches in flight over all operator sessions

OrderIds == 1..MaxOrders
Ops == 1..NumOps
NoId == 0           \* null / no id

(***************************************************************************)
(* types.ts OrderStatus; "none" is the absence of a row or of a value      *)
(***************************************************************************)
OrderStatus == {"pending", "processing", "approved", "rejected"}
NoStatus == "none"
IsTerminal(s) == s \in {"approved", "rejected"}
IsInProgress(s) == s \in {"pending", "processing"}

\* rejection reasons an operator can send; "" is undefined / null
NoReason == ""
Reasons == {"Invalid receipt"}

\* a row of the orders table; updated_at falls back to created_at, which the
\* server assigns at insert (distinct per row) and the client never writes
NoOrder == [status |-> NoStatus, rejection_reason |-> NoReason, updated_at |-> 0]
NullRet == [id |-> NoId, status |-> NoStatus]

VARIABLES
  orders,          \* remote store: id -> row, NoOrder where there is no row
  nextId,          \* next server-assigned id
  createRet,       \* value returned by the last createOrder call
  opOrders,        \* per operator session: useOrders `orders` as id -> status
  opError,         \* per operator session: useOrders `error` is set
  rejectingOrderId,\* per operator session: OrderManager rejectingOrderId
  opInflight,      \* page reads issued and not yet answered
  createArg,       \* orderData.status the last createOrder call was given
  createData,      \* the rest of the orderData the last createOrder call was given
  ev,              \* name of the handler that ran last
  \* customer side
  host,            \* which component renders the dialog under observation
  variant,         \* which OrderStatusModal of the repository is mounted
  persisted,       \* localStorage 'current_order_id'
  ctxOrderId,      \* OrderStatusContext orderId
  ctxShow,         \* OrderStatusContext showOrderStatusModal
  processingOrderId,   \* Menu processingOrderId
  currentOrderStatus,  \* Menu currentOrderStatus
  isOrderModalOpen,    \* Menu isOrderModalOpen
  itemOrderId,         \* GameItemOrderModal orderId
  isOrderStatusOpen,   \* GameItemOrderModal isOrderStatusOpen
  showOrderModal,      \* MenuItemCard showOrderModal
  dlg,             \* OrderStatusModal: order, loading, shouldContinuePolling, interval
  inflight,        \* fetchOrderById calls issued and not yet answered
  termObserved,    \* history: this open dialog has handled a terminal response
  lateFetch,       \* history: the dialog fetched after termObserved
  shownTerminal,   \* history: order id this open dialog has displayed as terminal
  loadedWith,      \* history: what localStorage held when the page was last loaded
  \* one useOrders instance on the admin route, in time
  now,             \* Date.now()
  lastFetchRef,    \* useOrders lastFetchRef.current
  pollDue,         \* when the setInterval of the poll effect fires next
  pushTimers,      \* setTimeout callbacks of the postgres_changes handler
  currentPage,     \* useOrders currentPage
  pageReads,       \* fetchOrders calls issued and not yet answered
  lastFetch,       \* history: when and by what the last page fetch was issued
  pushes,          \* history: changes pushed so far
  userFetches,     \* history: page fetches the operator has caused so far
  hook,            \* which useOrders of the repository the operator sessions run
  isAdminRoute,    \* useOrders isAdminRoute of the followed hook instance
  chan,            \* the orders channel of the realtime effect and its reconnect timer
  agg,             \* OrderManager details: order_items of the selected order, and the list shown
  \* pricing
  currentMember,   \* user_type of the logged-in member, "none" when logged out
  item,            \* the MenuItem of the card: discount and custom-field settings
  memberDiscounts, \* MenuItemCard memberDiscounts[variationId] of the priced variation
  priceArg,        \* history: the variation that was priced last
  priceOut,        \* history: what each pricing function returned for it
  \* the order form of GameItemOrderModal
  form,            \* selectedVariation, accounts, quantity, userSelections, ...
  uploads          \* receipt uploads and file reads started and not yet finished

storeVars == <<orders, nextId, createRet, createArg, createData>>
opVars == <<opOrders, opError, rejectingOrderId, opInflight>>
hostVars == <<ctxOrderId, ctxShow, processingOrderId, currentOrderStatus,
              isOrderModalOpen, itemOrderId, isOrderStatusOpen, showOrderModal>>
histVars == <<termObserved, lateFetch, shownTerminal>>
pollVars == <<now, lastFetchRef, pollDue, pushTimers, currentPage, pageReads,
              lastFetch, pushes, userFetches, isAdminRoute, chan, agg>>
priceVars == <<currentMember, item, memberDiscounts, priceArg, priceOut>>
auxVars == <<pollVars, hook, priceVars>>
formVars == <<form, uploads>>
custVars == <<host, variant, persisted, hostVars, dlg, inflight, histVars, loadedWith,
              auxVars, formVars>>

AbsentPage == [i \in OrderIds |-> NoStatus]

\* what a page read returns: ORDERS_PER_PAGE (20) exceeds MaxOrders, so page 1
\* lists every row
PageSnapshot(o) == [i \in OrderIds |-> o[i].status]

\* the rows of one page: .range(from, to) past the last row gives no rows
PageRows(o, page) == IF page = 1 THEN PageSnapshot(o) ELSE AbsentPage

(***************************************************************************)
(* useOrders.createOrder: the insert payload                               *)
(***************************************************************************)
\* variation of the payload: the caller's status is inserted when it gives one
InsertPayloadFromCaller(orderData) ==
  [status |-> IF orderData.status # NoStatus THEN orderData.status ELSE "pending",
   rejection_reason |-> NoReason]

InsertPayload(orderData) ==
  [status |-> "pending", rejection_reason |-> NoReason]

\* the remote store's insert: assigns the id and the timestamps
StoreInsert(o, id, payload) ==
  [o EXCEPT ![id] = [status |-> payload.status,
                     rejection_reason |-> payload.rejection_reason,
                     updated_at |-> id]]

(***************************************************************************)
(* useOrders.updateOrderStatus: the update payload; "keep" leaves the      *)
(* column out of the update                                                *)
(***************************************************************************)
UpdateData(status, rejectionReason) ==
  [status |-> status,
   rejection_reason |->
     IF status = "rejected" /\ rejectionReason # NoReason THEN rejectionReason
     ELSE IF status # "rejected" THEN NoReason
     ELSE "keep"]

\* the repository holds two versions of the hook: hooks/useOrders.ts, whose
\* updateOrderStatus(orderId, status) takes no reason (a third argument is
\* dropped), and the paginated one with the poll guard
HookVersions == {"plain", "paged"}

\* hooks/useOrders.ts updateOrderStatus: update({ status })
UpdateDataStatusOnly(status) == [status |-> status, rejection_reason |-> "keep"]

\* the update payload of the hook version in use
UpdatePayload(h, status, rejectionReason) ==
  IF h = "plain" THEN UpdateDataStatusOnly(status)
                 ELSE UpdateData(status, rejectionReason)

\* the remote store's update .eq('id', orderId): no row, no change
StoreUpdate(o, id, upd) ==
  IF o[id].status = NoStatus THEN o
  ELSE [o EXCEPT ![id].status = upd.status,
                 ![id].rejection_reason =
                    IF upd.rejection_reason = "keep" THEN @ ELSE upd.rejection_reason]

\* useOrders.fetchOrders(page, showLoading) up to its await: the read is issued
IssuePageFetch(reads, op, o, ok) ==
  reads \cup {[op |-> op, ok |-> ok, snap |-> PageSnapshot(o)]}

(***************************************************************************)
(* Customer side                                                           *)
(***************************************************************************)
MaxInflight == 2    \* fetchOrderById calls in flight on the customer side
MaxOtherOrders == 1 \* orders placed from a card other than the one followed

\* the components of the repository that render an OrderStatusModal:
\* MainApp through OrderStatusContext, Menu, GameItemOrderModal
Hosts == {"ctx", "menu", "item"}
\* OrderStatusModal.tsx holds two versions of the component
Variants == {1, 2}

\* the Order value fetchOrderById returns; NullOrder is null
NullOrder == [id |-> NoId, status |-> NoStatus, updated_at |-> 0]

\* the remote store's select('*').eq('id', orderId).single()
StoreSelect(o, orderId) ==
  IF orderId \in OrderIds /\ o[orderId].status # NoStatus
    THEN [id |-> orderId, status |-> o[orderId].status,
          updated_at |-> o[orderId].updated_at]
    ELSE NullOrder

\* useOrders.fetchOrderById: any error, a missing row included, gives null
fetchOrderById(row, netOk) == IF netOk /\ row # NullOrder THEN row ELSE NullOrder

\* a fetchOrderById call in flight: the row is read when the call is issued and
\* the answer is delivered at any later time, in any order
Request(kind, orderId, isInitial, o) ==
  [kind |-> kind, oid |-> orderId, initial |-> isInitial,
   row |-> StoreSelect(o, orderId), shown |-> "hidden"]

\* the call an onClose handler issues; shown records what the dialog displayed
\* when its close icon was clicked
CloseRequest(kind, orderId, o, shown) ==
  [Request(kind, orderId, FALSE, o) EXCEPT !.shown = shown]

\* the name a handler's run is recorded under: the run after a failed call is
\* told apart from the run after an answered one
Named(name, failedName, netOk) == IF netOk THEN name ELSE failedName

\* OrderStatusModal state after mount: useState(null), useState(true),
\* useRef(true); no interval yet
InitialDlg == [order |-> NullOrder, loading |-> TRUE,
               shouldContinuePolling |-> TRUE, interval |-> FALSE]

\* the state of the components that can own the dialog, and localStorage
Cur == [persisted |-> persisted,
        ctxOrderId |-> ctxOrderId, ctxShow |-> ctxShow,
        processingOrderId |-> processingOrderId,
        currentOrderStatus |-> currentOrderStatus,
        isOrderModalOpen |-> isOrderModalOpen,
        itemOrderId |-> itemOrderId, isOrderStatusOpen |-> isOrderStatusOpen,
        showOrderModal |-> showOrderModal,
        formReset |-> FALSE]     \* whether the handler ran handleClose's form reset

\* GameItemOrderModal returns null while its card is closed, which unmounts
\* the OrderStatusModal inside it; MainApp and Menu keep theirs mounted
Mounted(h, hs) == h # "item" \/ hs.showOrderModal

\* the props the host passes to its OrderStatusModal
Props(h, hs) ==
  CASE h = "ctx" -> [orderId |-> hs.ctxOrderId, isOpen |-> hs.ctxShow]
    [] h = "menu" -> [orderId |-> hs.processingOrderId, isOpen |-> hs.isOrderModalOpen]
    [] OTHER -> [orderId |-> hs.itemOrderId,
                 isOpen |-> hs.isOrderStatusOpen /\ hs.showOrderModal]

CurProps == Props(host, Cur)

\* the state of the component that owns the dialog; a change re-renders it and
\* its OrderStatusModal child
HostState(h, hs) ==
  CASE h = "ctx" -> <<hs.ctxOrderId, hs.ctxShow, NoStatus>>
    [] h = "menu" -> <<hs.processingOrderId, hs.isOrderModalOpen, hs.currentOrderStatus>>
    [] OTHER -> <<hs.itemOrderId, hs.isOrderStatusOpen, NoStatus>>

\* OrderStatusModal render: what the open dialog shows
Display(isOpen, d) ==
  IF ~isOpen THEN "hidden"
  ELSE IF d.loading /\ d.order = NullOrder THEN "Loading"
  ELSE IF d.order # NullOrder THEN d.order.status
  ELSE "NotFound"

\* OrderStatusModal setOrder(prevOrder => ...) of loadOrder
SetOrder(v, prevOrder, orderData, isInitial) ==
  IF prevOrder = NullOrder \/ isInitial THEN orderData
  ELSE IF prevOrder.status # orderData.status
          \/ prevOrder.updated_at # orderData.updated_at THEN orderData
  ELSE IF v = 1 /\ IsTerminal(orderData.status) THEN orderData
  ELSE prevOrder

\* whether that update returned the freshly fetched object (a new identity,
\* hence a render) rather than prevOrder
SetOrderReplaces(v, prevOrder, orderData, isInitial) ==
  \/ prevOrder = NullOrder \/ isInitial
  \/ prevOrder.status # orderData.status
  \/ prevOrder.updated_at # orderData.updated_at
  \/ (v = 1 /\ IsTerminal(orderData.status))

\* OrderStatusModal loadOrder after its await
LoadOrderResult(v, d, orderData, isInitial) ==
  LET d1 == IF orderData # NullOrder
              THEN [d EXCEPT !.order = SetOrder(v, d.order, orderData, isInitial),
                             !.shouldContinuePolling =
                                IF v = 1 /\ IsTerminal(orderData.status) THEN FALSE ELSE @]
              ELSE IF v = 1 /\ isInitial THEN [d EXCEPT !.order = NullOrder]
              ELSE d
  IN IF isInitial THEN [d1 EXCEPT !.loading = FALSE] ELSE d1

LoadOrderRenders(v, d, orderData, isInitial) ==
  \/ orderData # NullOrder /\ SetOrderReplaces(v, d.order, orderData, isInitial)
  \/ LoadOrderResult(v, d, orderData, isInitial) # d

\* OrderStatusModal useEffect: cleanup of the previous run, then the body
RunEffect(v, isOpen, orderId, d, o) ==
  IF isOpen /\ orderId # NoId
    THEN [dlg |-> [d EXCEPT !.loading = TRUE, !.shouldContinuePolling = TRUE,
                            !.interval = TRUE],
          reqs |-> {Request("loadOrder", orderId, TRUE, o)}]
    ELSE [dlg |-> IF v = 1 /\ IsTerminal(d.order.status)
                    THEN [d EXCEPT !.interval = FALSE]
                    ELSE InitialDlg,
          reqs |-> {}]

\* the effect's dependencies: [isOpen, orderId] in both versions; version 1 adds
\* order and loadOrder, and loadOrder is rebuilt on every render because
\* useOrders returns a new fetchOrderById each time
EffectRuns(v, propsChanged, rendered) == propsChanged \/ (v = 1 /\ rendered)

\* the close icon: which callback the click is routed to
RoutesToSucceededClose(v, order) ==
  IF v = 1 THEN order.status = "approved" ELSE IsTerminal(order.status)

(***************************************************************************)
(* Pricing. Amounts are centavos; undefined is Unset. discountPercentage   *)
(* is a decimal fraction in the data (0.10 for 10%), held here as the      *)
(* numerator over DiscountScale.                                           *)
(***************************************************************************)
Unset == -1
DiscountScale == 100

UserTypes == {"end_user", "reseller"}
NoMember == "none"

\* the variations of the catalogue: with and without member and reseller prices
AllVariations ==
  {[id |-> "v1", name |-> "P50", price |-> 5000, member_price |-> 4700, reseller_price |-> 4000],
   [id |-> "v2", name |-> "P80", price |-> 8000, member_price |-> Unset, reseller_price |-> Unset],
   [id |-> "v3", name |-> "P20", price |-> 2000, member_price |-> 1900, reseller_price |-> Unset],
   [id |-> "v4", name |-> "P30", price |-> 3000, member_price |-> Unset, reseller_price |-> 2500]}
NoVariation == [id |-> "", name |-> "", price |-> 0, member_price |-> Unset,
                reseller_price |-> Unset]

\* how the custom fields of an item are set up: none (the default IGN input),
\* one optional field, one required field
FieldSetups == {"default", "optional", "required"}

Items == [isOnDiscount : BOOLEAN, discountPercentage : {Unset, 10},
          customFields : FieldSetups]

\* basePrice * (1 - discountPercentage), exact for the amounts used here
TimesOneMinus(basePrice, pct) == (basePrice * (DiscountScale - pct)) \div DiscountScale

\* GameItemOrderModal.getDiscountedPrice(basePrice, variation)
getDiscountedPrice(member, it, basePrice, variation) ==
  IF member # NoMember /\ variation # NoVariation
       /\ member = "reseller" /\ variation.reseller_price # Unset
    THEN variation.reseller_price
  ELSE IF member # NoMember /\ variation # NoVariation
       /\ member # "reseller" /\ member = "end_user" /\ variation.member_price # Unset
    THEN variation.member_price
  ELSE IF it.isOnDiscount /\ it.discountPercentage # Unset
    THEN TimesOneMinus(basePrice, it.discountPercentage)
  ELSE basePrice

\* MenuItemCard.getDiscountedPriceSync(basePrice, variationId); discounts is
\* memberDiscounts[variationId], Unset or 0 when there is none
getDiscountedPriceSync(member, it, discounts, basePrice, variation) ==
  IF member = "reseller" /\ variation.reseller_price # Unset
    THEN variation.reseller_price
  ELSE IF member # NoMember /\ member # "reseller" /\ member = "end_user"
          /\ variation.member_price # Unset
    THEN variation.member_price
  ELSE IF member = "reseller" /\ variation # NoVariation
          /\ discounts # Unset /\ discounts # 0
    THEN discounts
  ELSE IF it.isOnDiscount /\ it.discountPercentage # Unset
    THEN basePrice - (basePrice * it.discountPercentage) \div DiscountScale
  ELSE basePrice

\* getDiscountedPrice(basePrice) of the single-account GameItemOrderModal:
\* basePrice - (basePrice * discountPercentage) / 100
getDiscountedPriceSingle(it, basePrice) ==
  IF it.isOnDiscount /\ it.discountPercentage # Unset
    THEN basePrice - (basePrice * it.discountPercentage) \div (DiscountScale * 100)
  ELSE basePrice

PriceFns == {"getDiscountedPrice", "getDiscountedPriceSync", "getDiscountedPriceSingle"}
NoPrices == [f \in PriceFns |-> Unset]

\* no card is followed
InitPriceIdle ==
  /\ currentMember = NoMember
  /\ item = [isOnDiscount |-> FALSE, discountPercentage |-> Unset,
             customFields |-> "default"]
  /\ memberDiscounts = Unset
  /\ priceArg = NoVariation
  /\ priceOut = NoPrices

(***************************************************************************)
(* The order form of GameItemOrderModal (multi-account version)            *)
(***************************************************************************)
MaxAccounts == 2        \* accounts the customer adds to one form
MaxQty == 2             \* largest quantity the customer asks for
MaxFiles == 2           \* receipt files the customer picks from

QUANTITY_MIN == 1
QUANTITY_MAX == 99

\* what the customer types into an account's field; "" is nothing
FieldValues == {"", "x"}
\* the variations of the item on the card
ItemVariations == {v \in AllVariations : v.id \in {"v1", "v2"}}
AccountIdx == 0..(MaxAccounts - 1)
NoIdx == -1             \* activeUserIdx null
NoSel == [variation |-> NoVariation, quantity |-> 0]   \* no entry in userSelections
Selections == [variation : ItemVariations, quantity : 1..MaxQty]
PaymentMethods == {"gcash"}
NoPayment == ""
Files == 1..MaxFiles
NoFile == 0             \* null File / null url / null preview

\* what createOrder is given besides the status; NoData when the form is not followed
NoData == [order_items |-> <<>>, groups |-> <<>>, ign |-> "", total_price |-> 0,
           receipt_url |-> NoFile]

\* useState defaults of the form, which handleClose restores
FormDefaults ==
  [selectedVariation |-> NoVariation,
   accounts |-> <<"">>,
   quantity |-> 1,
   userSelections |-> [i \in AccountIdx |-> NoSel],
   activeUserIdx |-> NoIdx,
   paymentMethodId |-> NoPayment,
   receiptFile |-> NoFile,
   receiptImageUrl |-> NoFile,
   receiptPreview |-> NoFile]

\* Math.max(1, Math.min(99, n))
ClampQuantity(n) ==
  IF n < QUANTITY_MIN THEN QUANTITY_MIN ELSE IF n > QUANTITY_MAX THEN QUANTITY_MAX ELSE n

\* the effect on [accounts.length, userSelections]: the first account without
\* a selection becomes the active one
FirstUnassigned(accounts, userSelections) ==
  IF Len(accounts) <= 1 THEN NoIdx
  ELSE IF \E i \in 0..(Len(accounts) - 1) : userSelections[i] = NoSel
    THEN CHOOSE i \in 0..(Len(accounts) - 1) :
           /\ userSelections[i] = NoSel
           /\ \A j \in 0..(i - 1) : userSelections[j] # NoSel
  ELSE NoIdx

\* sum of unit price * quantity over the entries of userSelections from index i
RECURSIVE SelectionsTotal(_, _, _, _)
SelectionsTotal(member, it, userSelections, i) ==
  IF i > MaxAccounts - 1 THEN 0
  ELSE (IF userSelections[i] = NoSel THEN 0
        ELSE getDiscountedPrice(member, it, userSelections[i].variation.price,
                                userSelections[i].variation)
               * userSelections[i].quantity)
       + SelectionsTotal(member, it, userSelections, i + 1)

\* variation of totalPrice: the quantities are left out of the sum
totalPriceOfUnits(member, it, f) ==
  IF Len(f.accounts) = 1
    THEN IF f.selectedVariation = NoVariation THEN 0
         ELSE getDiscountedPrice(member, it, f.selectedVariation.price, f.selectedVariation)
    ELSE SelectionsTotal(member, it,
                         [i \in AccountIdx |->
                            IF f.userSelections[i] = NoSel THEN NoSel
                            ELSE [f.userSelections[i] EXCEPT !.quantity = 1]], 0)

\* GameItemOrderModal totalPrice
totalPrice(member, it, f) ==
  IF Len(f.accounts) = 1
    THEN IF f.selectedVariation = NoVariation THEN 0
         ELSE getDiscountedPrice(member, it, f.selectedVariation.price, f.selectedVariation)
                * f.quantity
    ELSE SelectionsTotal(member, it, f.userSelections, 0)

\* value.trim()
Trim(value) == IF value = " " THEN "" ELSE value

\* isFormValid's test of one account's fields
AccountFieldsValid(it, acc) ==
  IF it.customFields # "default"
    THEN it.customFields = "required" => Trim(acc) # ""
    ELSE Trim(acc) # ""

\* GameItemOrderModal isFormValid
isFormValid(it, f) ==
  IF f.paymentMethodId = NoPayment \/ f.receiptImageUrl = NoFile THEN FALSE
  ELSE IF Len(f.accounts) = 1
    THEN f.selectedVariation # NoVariation /\ AccountFieldsValid(it, f.accounts[1])
  ELSE /\ \E i \in AccountIdx : f.userSelections[i] # NoSel
       /\ \A i \in AccountIdx :
            f.userSelections[i] # NoSel
              => /\ i < Len(f.accounts)
                 /\ AccountFieldsValid(it, f.accounts[i + 1])

\* handlePlaceOrder: the fields object of one account (one field per account
\* here), "" when it has no keys
AccountFields(acc) == acc

\* variation of the line items: one line that carries the quantity
LineItemsWithQuantity(member, it, variation, qty) ==
  <<[variation |-> variation.id, quantity |-> qty,
     totalPrice |-> getDiscountedPrice(member, it, variation.price, variation)]>>

\* handlePlaceOrder: the line items pushed for one account
LineItems(member, it, variation, qty) ==
  [q \in 1..qty |->
     [variation |-> variation.id, quantity |-> 1,
      totalPrice |-> getDiscountedPrice(member, it, variation.price, variation)]]

\* handlePlaceOrder: the group pushed to multipleAccountsData for one account
AccountGroup(variation, acc) ==
  IF AccountFields(acc) # ""
    THEN <<[package |-> variation.name, fields |-> AccountFields(acc)]>>
    ELSE <<>>

\* handlePlaceOrder: the loop over Object.entries(userSelections), from index i
RECURSIVE MultiOrderItems(_, _, _, _)
MultiOrderItems(member, it, f, i) ==
  IF i > MaxAccounts - 1 THEN <<>>
  ELSE (IF f.userSelections[i] = NoSel \/ i >= Len(f.accounts) THEN <<>>
        ELSE LineItems(member, it, f.userSelections[i].variation,
                       f.userSelections[i].quantity))
       \o MultiOrderItems(member, it, f, i + 1)

RECURSIVE MultiGroups(_, _)
MultiGroups(f, i) ==
  IF i > MaxAccounts - 1 THEN <<>>
  ELSE (IF f.userSelections[i] = NoSel \/ i >= Len(f.accounts) THEN <<>>
        ELSE AccountGroup(f.userSelections[i].variation, f.accounts[i + 1]))
       \o MultiGroups(f, i + 1)

\* handlePlaceOrder: the orderData passed to createOrder
OrderData(member, it, f) ==
  LET single == Len(f.accounts) = 1
      items == IF single
                 THEN LineItems(member, it, f.selectedVariation, f.quantity)
                 ELSE MultiOrderItems(member, it, f, 0)
      groups == IF single THEN AccountGroup(f.selectedVariation, f.accounts[1])
                          ELSE MultiGroups(f, 0)
  IN [order_items |-> items,
      groups |-> groups,
      ign |-> IF groups = <<>> /\ it.customFields = "default" THEN f.accounts[1] ELSE "",
      total_price |-> totalPrice(member, it, f),
      receipt_url |-> f.receiptImageUrl]

(***************************************************************************)
(* One handler of the customer side: hs is the host state and localStorage *)
(* it leaves, d1 the dialog state it leaves, rendered whether it changed   *)
(* the dialog's state, reqsIn the calls it answered and reqsOut the calls  *)
(* it issued; the dialog's effect follows the render.                      *)
(***************************************************************************)
CustStep(name, hs, d1, rendered, termNow, pollFetch, reqsIn, reqsOut, o) ==
  LET np == Props(host, hs)
      mounted == Mounted(host, hs)
      mounts == mounted /\ ~Mounted(host, Cur)
      propsChanged == np # CurProps \/ mounts
      hostChanged == HostState(host, hs) # HostState(host, Cur)
      d2 == IF mounted /\ ~mounts THEN d1 ELSE InitialDlg
      alive == IF mounted THEN inflight ELSE {r \in inflight : r.kind # "loadOrder"}
      e == IF mounted /\ EffectRuns(variant, propsChanged, rendered \/ hostChanged)
             THEN RunEffect(variant, np.isOpen, np.orderId, d2, o)
             ELSE [dlg |-> d2, reqs |-> {}]
      showsTerminal == /\ np.isOpen
                       /\ IsTerminal(e.dlg.order.status)
                       /\ e.dlg.order.id = np.orderId
  IN /\ persisted' = hs.persisted
     /\ ctxOrderId' = hs.ctxOrderId /\ ctxShow' = hs.ctxShow
     /\ processingOrderId' = hs.processingOrderId
     /\ currentOrderStatus' = hs.currentOrderStatus
     /\ isOrderModalOpen' = hs.isOrderModalOpen
     /\ itemOrderId' = hs.itemOrderId /\ isOrderStatusOpen' = hs.isOrderStatusOpen
     /\ showOrderModal' = hs.showOrderModal
     /\ dlg' = e.dlg
     /\ inflight' = ((alive \ reqsIn) \cup reqsOut) \cup e.reqs
     /\ Cardinality(inflight') <= MaxInflight
     /\ termObserved' = (~propsChanged /\ termNow)
     /\ lateFetch' = (~propsChanged /\ termNow /\ (e.reqs # {} \/ pollFetch))
     /\ shownTerminal' = IF showsTerminal /\ (propsChanged \/ shownTerminal = NoId)
                           THEN np.orderId
                         ELSE IF propsChanged THEN NoId
                         ELSE shownTerminal
     /\ ev' = name
     /\ form' = IF hs.formReset THEN FormDefaults ELSE form
     /\ UNCHANGED <<host, variant, loadedWith, auxVars, uploads>>

\* a handler that leaves the dialog's own state alone
HostStep(name, hs, reqsIn, reqsOut, o) ==
  CustStep(name, hs, dlg, FALSE, termObserved, FALSE, reqsIn, reqsOut, o)

(***************************************************************************)
(* useOrders on the admin route, in time: the poll interval, the           *)
(* postgres_changes handler and lastFetchRef. Times are milliseconds.      *)
(***************************************************************************)
POLL_INTERVAL_MS == 30000
MIN_FETCH_INTERVAL_MS == 2000
PushDelayMs == 100      \* setTimeout delay of the postgres_changes handler

TimeUnit == 1000        \* grain of the clock between timer expiries
MountTime == 10000      \* Date.now() when the hook mounts
MaxTime == 34000        \* how long after the mount the session is followed
MaxPages == 2           \* pages of orders the operator can move between
MaxPushes == 1          \* changes of the orders table pushed to the session
MaxUserFetches == 1     \* page fetches the operator causes (refresh, page, update)
MaxPageReads == 2       \* fetchOrders calls in flight at a time

Pages == 1..MaxPages
Triggers == {"mount", "refresh", "page", "update", "push", "poll"}
NoFetch == [at |-> 0, by |-> "none"]

\* no channel followed: status, delay of the pending reconnectTimeout (NoTimer
\* when none is pending), change events the
\* server has queued for the channel
NoTimer == 0

\* no order selected in OrderManager: nothing to aggregate, nothing shown
NoDetails == [items |-> <<>>, viewed |-> FALSE, shown |-> <<>>, itemsAfter |-> <<>>]
NoChannel == [status |-> "none", reconnectTimeout |-> NoTimer, events |-> 0]

\* useOrders.fetchOrders(page, showLoading) up to its await
IssuePageRead(reads, page, by, ok) == reads \cup {[page |-> page, by |-> by, ok |-> ok]}

\* the operator session whose hook instance is followed in time
FollowedOp == CHOOSE p \in Ops : \A q \in Ops : p <= q

\* fetchOrders issued by the poll interval or by the postgres_changes handler
BackgroundTriggers == {"poll", "push"}

\* a poll that every tick skips
PollAlwaysSuppressed(t, last) == TRUE

\* the poll callback's test of lastFetchRef
PollSuppressed(t, last) == t - last < MIN_FETCH_INTERVAL_MS

\* the smallest of a non-empty set of times
MinTime(S) == CHOOSE t \in S : \A u \in S : t <= u

\* the next instant at which something can happen: a timer expiry or the next
\* grain of the clock
NextInstant(t, due, timers) ==
  MinTime({((t \div TimeUnit) + 1) * TimeUnit, due} \cup {x.due : x \in timers})

\* no hook instance on the admin route is followed
InitPollIdle ==
  /\ now = 0 /\ lastFetchRef = 0 /\ pollDue = 0
  /\ pushTimers = {} /\ currentPage = 1 /\ pageReads = {}
  /\ lastFetch = NoFetch /\ pushes = 0 /\ userFetches = 0
  /\ isAdminRoute = TRUE
  /\ chan = NoChannel
  /\ agg = NoDetails

InitCustomerIdle ==
  /\ persisted = NoId
  /\ ctxOrderId = NoId /\ ctxShow = FALSE
  /\ processingOrderId = NoId /\ currentOrderStatus = NoStatus
  /\ isOrderModalOpen = FALSE
  /\ itemOrderId = NoId /\ isOrderStatusOpen = FALSE /\ showOrderModal = FALSE
  /\ dlg = InitialDlg
  /\ inflight = {}
  /\ termObserved = FALSE /\ lateFetch = FALSE /\ shownTerminal = NoId
  /\ loadedWith = NoId
  /\ form = FormDefaults /\ uploads = {}

TypeOKStore ==
  /\ orders \in [OrderIds -> [status : OrderStatus \cup {NoStatus},
                              rejection_reason : Reasons \cup {NoReason},
                              updated_at : 0..MaxOrders]]
  /\ nextId \in 1..(MaxOrders + 1)
  /\ opOrders \in [Ops -> [OrderIds -> OrderStatus \cup {NoStatus}]]
  /\ opError \in [Ops -> BOOLEAN]
  /\ rejectingOrderId \in [Ops -> OrderIds \cup {NoId}]

InitStore ==
  /\ orders = [i \in OrderIds |-> NoOrder]
  /\ nextId = 1
  /\ createRet = NullRet
  /\ opOrders = [p \in Ops |-> AbsentPage]
  /\ opError = [p \in Ops |-> FALSE]
  /\ rejectingOrderId = [p \in Ops |-> NoId]
  /\ opInflight = {}
  /\ createArg = NoStatus /\ createData = NoData
  /\ ev = "init"
  /\ host = "ctx" /\ variant = 1
  /\ InitCustomerIdle
  /\ InitPollIdle
  /\ InitPriceIdle
  /\ hook \in HookVersions

(***************************************************************************)
(* useOrders.createOrder called from the customer context: the hook        *)
(* instance there has no orders loaded and is not on the admin route, so   *)
(* only the insert happens                                                 *)
(***************************************************************************)
createOrder(orderData, storeOk) ==
  /\ nextId <= MaxOrders
  /\ createArg' = orderData.status
  /\ createData' = orderData.data
  /\ IF storeOk
       THEN /\ orders' = StoreInsert(orders, nextId, InsertPayload(orderData))
            /\ nextId' = nextId + 1
            /\ createRet' = [id |-> nextId, status |-> orders'[nextId].status]
       ELSE /\ createRet' = NullRet
            /\ UNCHANGED <<orders, nextId>>

CreateOrder(passedStatus, storeOk) ==
  /\ createOrder([status |-> passedStatus, data |-> NoData], storeOk)
  /\ ev' = IF storeOk THEN "createOrder" ELSE "createOrderFailed"
  /\ UNCHANGED opVars
  /\ UNCHANGED custVars

\* OrderManager mount / manual refresh / page change: fetchOrders(page)
FetchOrders(op, ok) ==
  /\ Cardinality(opInflight) < MaxOpInflight
  /\ opInflight' = IssuePageFetch(opInflight, op, orders, ok)
  /\ ev' = "fetchOrders"
  /\ UNCHANGED <<storeVars, opOrders, opError, rejectingOrderId>>
  /\ UNCHANGED custVars

\* useOrders.fetchOrders after its await
FetchOrdersResponse(r) ==
  /\ r \in opInflight
  /\ opInflight' = opInflight \ {r}
  /\ IF r.ok
       THEN /\ opOrders' = [opOrders EXCEPT ![r.op] = r.snap]
            /\ opError' = [opError EXCEPT ![r.op] = FALSE]
       ELSE /\ opError' = [opError EXCEPT ![r.op] = TRUE]
            /\ UNCHANGED opOrders
  /\ ev' = "fetchOrdersResponse"
  /\ UNCHANGED <<storeVars, rejectingOrderId>>
  /\ UNCHANGED custVars

\* useOrders.updateOrderStatus; the refresh it awaits is issued on success
UpdateOrderStatus(op, id, status, rejectionReason, storeOk, fetchOk) ==
  IF storeOk
    THEN /\ orders' = StoreUpdate(orders, id, UpdatePayload(hook, status, rejectionReason))
         /\ opInflight' = IssuePageFetch(opInflight, op, orders', fetchOk)
         /\ UNCHANGED opError
    ELSE /\ opError' = [opError EXCEPT ![op] = TRUE]
         /\ UNCHANGED <<orders, opInflight>>

\* the Approve / Reject buttons are rendered for the rows the session's page
\* shows as pending or processing
ButtonsShown(op, id) == IsInProgress(opOrders[op][id])

\* OrderManager.handleApprove
HandleApprove(op, id, storeOk, fetchOk) ==
  /\ ButtonsShown(op, id)
  /\ Cardinality(opInflight) < MaxOpInflight
  /\ UpdateOrderStatus(op, id, "approved", NoReason, storeOk, fetchOk)
  /\ ev' = "handleApprove"
  /\ UNCHANGED <<nextId, createRet, createArg, createData, opOrders, rejectingOrderId>>
  /\ UNCHANGED custVars

\* OrderManager.handleRejectClick
HandleRejectClick(op, id) ==
  /\ ButtonsShown(op, id)
  /\ rejectingOrderId' = [rejectingOrderId EXCEPT ![op] = id]
  /\ ev' = "handleRejectClick"
  /\ UNCHANGED <<storeVars, opOrders, opError, opInflight>>
  /\ UNCHANGED custVars

\* OrderManager.handleRejectConfirm: the reason is never empty (it falls back
\* to 'Order rejected by admin')
HandleRejectConfirm(op, reason, storeOk, fetchOk) ==
  /\ rejectingOrderId[op] # NoId
  /\ Cardinality(opInflight) < MaxOpInflight
  /\ UpdateOrderStatus(op, rejectingOrderId[op], "rejected", reason, storeOk, fetchOk)
  /\ rejectingOrderId' = [rejectingOrderId EXCEPT ![op] = IF storeOk THEN NoId ELSE @]
  /\ ev' = "handleRejectConfirm"
  /\ UNCHANGED <<nextId, createRet, createArg, createData, opOrders>>
  /\ UNCHANGED custVars

\* OrderManager.handleRejectCancel
HandleRejectCancel(op) ==
  /\ rejectingOrderId[op] # NoId
  /\ rejectingOrderId' = [rejectingOrderId EXCEPT ![op] = NoId]
  /\ ev' = "handleRejectCancel"
  /\ UNCHANGED <<storeVars, opOrders, opError, opInflight>>
  /\ UNCHANGED custVars

vars == <<storeVars, opVars, ev, custVars>>

(***************************************************************************)
(* Customer side: the remote store as the customer's browser sees it       *)
(***************************************************************************)
\* the store write of an operator session's updateOrderStatus (handleApprove,
\* handleRejectConfirm); SpecStore has the sessions themselves
OperatorWrite(id, status, rejectionReason) ==
  /\ orders[id].status # NoStatus
  /\ orders' = StoreUpdate(orders, id, UpdateData(status, rejectionReason))
  /\ ev' = "updateOrderStatus"
  /\ UNCHANGED <<nextId, createRet, createArg, createData, opVars, custVars>>

\* a row removed from the orders table (the subscription listens for '*',
\* DELETE included; fetchOrderById then finds no row)
StoreDelete(id) ==
  /\ orders[id].status # NoStatus
  /\ orders' = [orders EXCEPT ![id] = NoOrder]
  /\ ev' = "storeDelete"
  /\ UNCHANGED <<nextId, createRet, createArg, createData, opVars, custVars>>

\* the page is loaded again: every component starts from its useState
\* defaults, calls in flight are lost, localStorage stays
Reload ==
  /\ ctxOrderId' = NoId /\ ctxShow' = FALSE
  /\ processingOrderId' = NoId /\ currentOrderStatus' = NoStatus
  /\ isOrderModalOpen' = FALSE
  /\ itemOrderId' = NoId /\ isOrderStatusOpen' = FALSE /\ showOrderModal' = FALSE
  /\ dlg' = InitialDlg
  /\ inflight' = {}
  /\ termObserved' = FALSE /\ lateFetch' = FALSE /\ shownTerminal' = NoId
  /\ loadedWith' = persisted
  /\ ev' = "reload"
  /\ form' = FormDefaults /\ uploads' = {}
  /\ UNCHANGED <<storeVars, opVars, host, variant, persisted, auxVars>>

(***************************************************************************)
(* OrderStatusContext and MainApp                                           *)
(***************************************************************************)
\* OrderStatusProvider.setOrderPlaced
setOrderPlaced(hs, id) ==
  [hs EXCEPT !.ctxOrderId = id, !.ctxShow = TRUE, !.persisted = id]

\* OrderStatusProvider.clearOrderStatus
clearOrderStatus(hs) ==
  [hs EXCEPT !.ctxShow = FALSE, !.ctxOrderId = NoId, !.persisted = NoId]

\* OrderStatusProvider.closeOrderStatusModal
closeOrderStatusModal(hs) == [hs EXCEPT !.ctxShow = FALSE]

\* variation of openOrderStatusModal: the dialog is shown whatever autoShow says
openOrderStatusModalAlwaysShows(hs, id, autoShow) ==
  [hs EXCEPT !.ctxOrderId = id, !.ctxShow = TRUE]

\* OrderStatusProvider.openOrderStatusModal
openOrderStatusModal(hs, id, autoShow) ==
  [hs EXCEPT !.ctxOrderId = id, !.ctxShow = IF autoShow THEN TRUE ELSE @]

\* setOrderPlaced is called with the id of an order that was created
SetOrderPlaced(id) ==
  /\ host = "ctx"
  /\ orders[id].status # NoStatus
  /\ HostStep("setOrderPlaced", setOrderPlaced(Cur, id), {}, {}, orders)
  /\ UNCHANGED <<storeVars, opVars>>

\* MainApp checkPendingOrder up to its await; the effect runs on load and on
\* every later render of MainApp
CheckPendingOrder ==
  /\ host = "ctx"
  /\ persisted # NoId
  /\ HostStep("checkPendingOrder", Cur, {},
              {Request("checkPendingOrder", persisted, FALSE, orders)}, orders)
  /\ UNCHANGED <<storeVars, opVars>>

\* MainApp checkPendingOrder: what it does with the answer
checkPendingOrderResult(hs, storedOrderId, order) ==
  IF order # NullOrder /\ order.status \in OrderStatus
    THEN openOrderStatusModal(hs, storedOrderId, IsInProgress(order.status))
    ELSE hs

CheckPendingOrderResponse(r, netOk) ==
  /\ host = "ctx"
  /\ r \in inflight /\ r.kind = "checkPendingOrder"
  /\ HostStep(Named("checkPendingOrderResponse", "checkPendingOrderFailed", netOk), checkPendingOrderResult(Cur, r.oid, fetchOrderById(r.row, netOk)),
              {r}, {}, orders)
  /\ UNCHANGED <<storeVars, opVars>>

(***************************************************************************)
(* Menu                                                                    *)
(***************************************************************************)
\* Menu checkProcessingOrder up to its await; runs on mount and every 5 s
CheckProcessingOrder ==
  /\ host = "menu"
  /\ IF persisted # NoId
       THEN HostStep("checkProcessingOrder", Cur, {},
                     {Request("checkProcessingOrder", persisted, FALSE, orders)}, orders)
       ELSE HostStep("checkProcessingOrder",
                     [Cur EXCEPT !.processingOrderId = NoId,
                                 !.currentOrderStatus = NoStatus],
                     {}, {}, orders)
  /\ UNCHANGED <<storeVars, opVars>>

\* Menu checkProcessingOrder: what it does with the answer
checkProcessingOrderResult(hs, storedOrderId, order) ==
  IF order # NullOrder /\ order.status \in OrderStatus
    THEN [hs EXCEPT !.processingOrderId = storedOrderId,
                    !.currentOrderStatus = order.status,
                    !.isOrderModalOpen = IF IsInProgress(order.status) THEN TRUE ELSE @]
    ELSE [hs EXCEPT !.persisted = NoId,
                    !.processingOrderId = NoId,
                    !.currentOrderStatus = NoStatus]

CheckProcessingOrderResponse(r, netOk) ==
  /\ host = "menu"
  /\ r \in inflight /\ r.kind = "checkProcessingOrder"
  /\ HostStep(Named("checkProcessingOrderResponse", "checkProcessingOrderFailed", netOk),
              checkProcessingOrderResult(Cur, r.oid, fetchOrderById(r.row, netOk)), {r}, {}, orders)
  /\ UNCHANGED <<storeVars, opVars>>

\* OrderStatusBanner 'View' button
BannerView ==
  /\ host = "menu"
  /\ processingOrderId # NoId
  /\ ~isOrderModalOpen
  /\ HostStep("bannerView", [Cur EXCEPT !.isOrderModalOpen = TRUE], {}, {}, orders)
  /\ UNCHANGED <<storeVars, opVars>>

\* Menu onSucceededClose
menuOnSucceededClose(hs) ==
  [hs EXCEPT !.persisted = NoId, !.processingOrderId = NoId,
             !.currentOrderStatus = NoStatus, !.isOrderModalOpen = FALSE]

\* Menu handleModalClose up to its await
handleModalClose(hs) ==
  IF hs.processingOrderId # NoId /\ IsTerminal(hs.currentOrderStatus)
    THEN [hs EXCEPT !.isOrderModalOpen = FALSE, !.persisted = NoId,
                    !.processingOrderId = NoId, !.currentOrderStatus = NoStatus]
    ELSE [hs EXCEPT !.isOrderModalOpen = FALSE]

handleModalCloseFetches(hs) ==
  hs.processingOrderId # NoId /\ ~IsTerminal(hs.currentOrderStatus)

\* Menu handleModalClose after its await
handleModalCloseResult(hs, order) ==
  IF order = NullOrder THEN hs
  ELSE IF IsTerminal(order.status)
    THEN [hs EXCEPT !.persisted = NoId, !.processingOrderId = NoId,
                    !.currentOrderStatus = NoStatus]
  ELSE [hs EXCEPT !.currentOrderStatus = order.status]

HandleModalCloseResponse(r, netOk) ==
  /\ host = "menu"
  /\ r \in inflight /\ r.kind = "handleModalClose"
  /\ HostStep(Named("handleModalCloseResponse", "handleModalCloseFailed", netOk), handleModalCloseResult(Cur, fetchOrderById(r.row, netOk)),
              {r}, {}, orders)
  /\ UNCHANGED <<storeVars, opVars>>

(***************************************************************************)
(* MenuItemCard and GameItemOrderModal                                     *)
(***************************************************************************)
\* MenuItemCard.handleCardClick
HandleCardClick ==
  /\ host = "item"
  /\ ~showOrderModal
  /\ HostStep("handleCardClick", [Cur EXCEPT !.showOrderModal = TRUE], {}, {}, orders)
  /\ UNCHANGED <<storeVars, opVars>>

\* GameItemOrderModal.handleClose: onClose() of the card; the form goes back
\* to FormDefaults in the step that closes the card
handleClose(hs) == [hs EXCEPT !.showOrderModal = FALSE, !.formReset = TRUE]

HandleClose ==
  /\ host = "item"
  /\ showOrderModal /\ ~isOrderStatusOpen
  /\ HostStep("handleClose", handleClose(Cur), {}, {}, orders)
  /\ UNCHANGED <<storeVars, opVars>>

\* variation of handlePlaceOrder: an id already stored is not overwritten
handlePlaceOrderKeepsStored(hs, newOrder, inObservedCard) ==
  IF newOrder = NullRet THEN hs
  ELSE LET kept == IF hs.persisted # NoId THEN hs.persisted ELSE newOrder.id
       IN IF inObservedCard
            THEN [hs EXCEPT !.itemOrderId = newOrder.id, !.persisted = kept,
                            !.isOrderStatusOpen = TRUE]
            ELSE [hs EXCEPT !.persisted = kept]

\* GameItemOrderModal.handlePlaceOrder after createOrder returned newOrder
handlePlaceOrderResult(hs, newOrder, inObservedCard) ==
  IF newOrder = NullRet THEN hs
  ELSE IF inObservedCard
    THEN [hs EXCEPT !.itemOrderId = newOrder.id, !.persisted = newOrder.id,
                    !.isOrderStatusOpen = TRUE]
  ELSE [hs EXCEPT !.persisted = newOrder.id]

\* GameItemOrderModal.handlePlaceOrder. Under the hosts MainApp and Menu the
\* order is placed in a card whose own state is not followed: the store and
\* localStorage are what they share with it. An open dialog covers the page.
PlaceOrder(storeOk, most) ==
  /\ IF host = "item" THEN showOrderModal /\ ~isOrderStatusOpen
                      ELSE ~CurProps.isOpen /\ nextId <= most
  /\ createOrder([status |-> NoStatus, data |-> NoData], storeOk)
  /\ HostStep(IF storeOk THEN "handlePlaceOrder" ELSE "handlePlaceOrderFailed",
              handlePlaceOrderResult(Cur, createRet', host = "item"),
              {}, {}, orders')
  /\ UNCHANGED opVars

HandlePlaceOrder(storeOk) == PlaceOrder(storeOk, MaxOtherOrders)

\* GameItemOrderModal onSucceededClose
itemOnSucceededClose(hs) ==
  handleClose([hs EXCEPT !.persisted = NoId, !.itemOrderId = NoId])

\* GameItemOrderModal onClose up to fetchOrderById
itemOnClose(hs) == [hs EXCEPT !.isOrderStatusOpen = FALSE]

\* GameItemOrderModal onClose: the .then of fetchOrderById
itemOnCloseResult(hs, o) ==
  IF o.status = "approved"
    THEN handleClose([hs EXCEPT !.persisted = NoId, !.itemOrderId = NoId])
    ELSE hs

ItemOnCloseResponse(r, netOk) ==
  /\ host = "item"
  /\ r \in inflight /\ r.kind = "itemOnClose"
  /\ HostStep(Named("itemOnCloseResponse", "itemOnCloseFailed", netOk), itemOnCloseResult(Cur, fetchOrderById(r.row, netOk)), {r}, {}, orders)
  /\ UNCHANGED <<storeVars, opVars>>

(***************************************************************************)
(* OrderStatusModal                                                        *)
(***************************************************************************)
\* the onSucceededClose prop of the host
OnSucceededClose(h, hs) ==
  CASE h = "ctx" -> clearOrderStatus(hs)
    [] h = "menu" -> menuOnSucceededClose(hs)
    [] OTHER -> itemOnSucceededClose(hs)

\* the onClose prop of the host, up to its first await
OnClose(h, hs) ==
  CASE h = "ctx" -> closeOrderStatusModal(hs)
    [] h = "menu" -> handleModalClose(hs)
    [] OTHER -> itemOnClose(hs)

\* the fetchOrderById call the onClose prop issues
OnCloseRequests(h, hs, o, shown) ==
  CASE h = "ctx" -> {}
    [] h = "menu" -> IF handleModalCloseFetches(hs)
                       THEN {CloseRequest("handleModalClose", hs.processingOrderId, o, shown)}
                       ELSE {}
    [] OTHER -> IF hs.itemOrderId # NoId
                  THEN {CloseRequest("itemOnClose", hs.itemOrderId, o, shown)}
                  ELSE {}

\* the close icon of the dialog
CloseClick ==
  /\ CurProps.isOpen
  /\ IF RoutesToSucceededClose(variant, dlg.order)
       THEN HostStep("onSucceededClose", OnSucceededClose(host, Cur), {}, {}, orders)
       ELSE HostStep("onClose", OnClose(host, Cur), {},
                     OnCloseRequests(host, Cur, orders, Display(TRUE, dlg)), orders)
  /\ UNCHANGED <<storeVars, opVars>>

\* loadOrder after its await, and the effect run its render causes
LoadOrderResponse(r, netOk) ==
  /\ r \in inflight /\ r.kind = "loadOrder"
  /\ CustStep(Named("loadOrderResponse", "loadOrderFailed", netOk), Cur,
              LoadOrderResult(variant, dlg, fetchOrderById(r.row, netOk), r.initial),
              LoadOrderRenders(variant, dlg, fetchOrderById(r.row, netOk), r.initial),
              termObserved \/ (CurProps.isOpen /\ r.oid = CurProps.orderId
                               /\ IsTerminal(fetchOrderById(r.row, netOk).status)),
              FALSE, {r}, {}, orders)
  /\ UNCHANGED <<storeVars, opVars>>

\* the 3 s interval of the dialog: version 1 asks shouldContinuePolling first
PollFires(v, d) == d.interval /\ (v = 1 => d.shouldContinuePolling)

PollTick ==
  /\ PollFires(variant, dlg)
  /\ CustStep("pollTick", Cur, dlg, FALSE, termObserved, TRUE, {},
              {Request("loadOrder", CurProps.orderId, FALSE, orders)}, orders)
  /\ UNCHANGED <<storeVars, opVars>>

TypeOKCustomer ==
  /\ host \in Hosts /\ variant \in Variants
  /\ persisted \in OrderIds \cup {NoId}
  /\ ctxOrderId \in OrderIds \cup {NoId} /\ ctxShow \in BOOLEAN
  /\ processingOrderId \in OrderIds \cup {NoId}
  /\ currentOrderStatus \in OrderStatus \cup {NoStatus}
  /\ isOrderModalOpen \in BOOLEAN
  /\ itemOrderId \in OrderIds \cup {NoId}
  /\ isOrderStatusOpen \in BOOLEAN /\ showOrderModal \in BOOLEAN
  /\ dlg.order.status \in OrderStatus \cup {NoStatus}
  /\ dlg.loading \in BOOLEAN /\ dlg.interval \in BOOLEAN
  /\ Cardinality(inflight) <= MaxInflight
  /\ dlg.interval => (CurProps.isOpen /\ CurProps.orderId # NoId)

InitCustomer ==
  /\ orders = [i \in OrderIds |-> NoOrder]
  /\ nextId = 1
  /\ createRet = NullRet
  /\ createArg = NoStatus /\ createData = NoData
  /\ opOrders = [p \in Ops |-> AbsentPage]
  /\ opError = [p \in Ops |-> FALSE]
  /\ rejectingOrderId = [p \in Ops |-> NoId]
  /\ opInflight = {}
  /\ ev = "init"
  /\ host \in Hosts /\ variant \in Variants
  /\ InitCustomerIdle
  /\ InitPollIdle
  /\ InitPriceIdle
  /\ hook = "paged"

NextCustomer ==
  \/ \E id \in OrderIds : OperatorWrite(id, "approved", NoReason)
  \/ \E id \in OrderIds, reason \in Reasons : OperatorWrite(id, "rejected", reason)
  \/ \E id \in OrderIds : StoreDelete(id)
  \/ Reload
  \/ \E id \in OrderIds : SetOrderPlaced(id)
  \/ CheckPendingOrder
  \/ \E r \in inflight, netOk \in BOOLEAN : CheckPendingOrderResponse(r, netOk)
  \/ CheckProcessingOrder
  \/ \E r \in inflight, netOk \in BOOLEAN : CheckProcessingOrderResponse(r, netOk)
  \/ BannerView
  \/ \E r \in inflight, netOk \in BOOLEAN : HandleModalCloseResponse(r, netOk)
  \/ HandleCardClick
  \/ HandleClose
  \/ \E storeOk \in BOOLEAN : HandlePlaceOrder(storeOk)
  \/ \E r \in inflight, netOk \in BOOLEAN : ItemOnCloseResponse(r, netOk)
  \/ CloseClick
  \/ \E r \in inflight, netOk \in BOOLEAN : LoadOrderResponse(r, netOk)
  \/ PollTick

SpecCustomer == InitCustomer /\ [][NextCustomer]_vars


NextStore ==
  \/ \E s \in OrderStatus \cup {NoStatus}, ok \in BOOLEAN : CreateOrder(s, ok)
  \/ \E op \in Ops, ok \in BOOLEAN : FetchOrders(op, ok)
  \/ \E r \in opInflight : FetchOrdersResponse(r)
  \/ \E op \in Ops, id \in OrderIds, sok \in BOOLEAN, fok \in BOOLEAN :
       HandleApprove(op, id, sok, fok)
  \/ \E op \in Ops, id \in OrderIds : HandleRejectClick(op, id)
  \/ \E op \in Ops, reason \in Reasons, sok \in BOOLEAN, fok \in BOOLEAN :
       HandleRejectConfirm(op, reason, sok, fok)
  \/ \E op \in Ops : HandleRejectCancel(op)

SpecStore == InitStore /\ [][NextStore]_vars

(***************************************************************************)
(* useOrders on the admin route: one hook instance followed in time        *)
(***************************************************************************)
\* the part of the state these handlers leave alone
pollFrame == <<storeVars, rejectingOrderId, opInflight, host, variant, persisted,
               hostVars, dlg, inflight, histVars, loadedWith, hook, isAdminRoute, chan, agg,
               priceVars, formVars>>

\* a page fetch is issued: fetchOrders up to its await, and the record of it
PageFetch(page, by, ok) ==
  /\ Cardinality(pageReads) < MaxPageReads
  /\ pageReads' = IssuePageRead(pageReads, page, by, ok)
  /\ lastFetch' = [at |-> now, by |-> by]

\* a page fetch the operator causes
UserFetch(page, by, ok) ==
  /\ userFetches < MaxUserFetches
  /\ userFetches' = userFetches + 1
  /\ PageFetch(page, by, ok)

\* time passes up to the next instant; an expired timer runs first
Advance ==
  /\ pollDue > now
  /\ \A x \in pushTimers : x.due > now
  /\ NextInstant(now, pollDue, pushTimers) <= MountTime + MaxTime
  /\ now' = NextInstant(now, pollDue, pushTimers)
  /\ ev' = "advance"
  /\ UNCHANGED <<lastFetchRef, pollDue, pushTimers, currentPage, pageReads,
                 lastFetch, pushes, userFetches>>
  /\ UNCHANGED <<opOrders, opError>>
  /\ UNCHANGED pollFrame

\* the setInterval callback of the poll effect
PollTimerFires(ok) ==
  /\ pollDue = now
  /\ pollDue' = now + POLL_INTERVAL_MS
  /\ IF PollSuppressed(now, lastFetchRef)
       THEN /\ ev' = "pollSkipped"
            /\ UNCHANGED <<lastFetchRef, pageReads, lastFetch>>
       ELSE /\ lastFetchRef' = now
            /\ PageFetch(currentPage, "poll", ok)
            /\ ev' = "pollFetch"
  /\ UNCHANGED <<now, pushTimers, currentPage, pushes, userFetches>>
  /\ UNCHANGED <<opOrders, opError>>
  /\ UNCHANGED pollFrame

\* the postgres_changes handler: a change of the orders table is pushed
PostgresChanges ==
  /\ pushes < MaxPushes
  /\ pushes' = pushes + 1
  /\ lastFetchRef' = now
  /\ pushTimers' = pushTimers \cup {[due |-> now + PushDelayMs, page |-> currentPage]}
  /\ ev' = "postgresChanges"
  /\ UNCHANGED <<now, pollDue, currentPage, pageReads, lastFetch, userFetches>>
  /\ UNCHANGED <<opOrders, opError>>
  /\ UNCHANGED pollFrame

\* the setTimeout callback of the postgres_changes handler; it fetches the
\* page that was current when the handler's effect was set up
PushTimeoutFires(x, ok) ==
  /\ x \in pushTimers /\ x.due = now
  /\ pushTimers' = pushTimers \ {x}
  /\ PageFetch(x.page, "push", ok)
  /\ ev' = "pushFetch"
  /\ UNCHANGED <<now, lastFetchRef, pollDue, currentPage, pushes, userFetches>>
  /\ UNCHANGED <<opOrders, opError>>
  /\ UNCHANGED pollFrame

\* OrderManager refresh button: fetchOrders(currentPage)
ManualRefresh(ok) ==
  /\ UserFetch(currentPage, "refresh", ok)
  /\ ev' = "manualRefresh"
  /\ UNCHANGED <<now, lastFetchRef, pollDue, pushTimers, currentPage, pushes>>
  /\ UNCHANGED <<opOrders, opError>>
  /\ UNCHANGED pollFrame

\* OrderManager.handlePageChange: fetchOrders(newPage)
HandlePageChange(newPage, ok) ==
  /\ newPage # currentPage
  /\ UserFetch(newPage, "page", ok)
  /\ ev' = "handlePageChange"
  /\ UNCHANGED <<now, lastFetchRef, pollDue, pushTimers, currentPage, pushes>>
  /\ UNCHANGED <<opOrders, opError>>
  /\ UNCHANGED pollFrame

\* useOrders.updateOrderStatus after its write succeeded: the refresh
StatusUpdateRefresh(ok) ==
  /\ UserFetch(currentPage, "update", ok)
  /\ ev' = "updateRefresh"
  /\ UNCHANGED <<now, lastFetchRef, pollDue, pushTimers, currentPage, pushes>>
  /\ UNCHANGED <<opOrders, opError>>
  /\ UNCHANGED pollFrame

\* useOrders.fetchOrders after its await: setOrders, setCurrentPage(page) and
\* setError(null), or setError(message) in the catch; a new currentPage runs
\* the poll effect again, which restarts the interval
PageReadResponse(r) ==
  /\ r \in pageReads
  /\ pageReads' = pageReads \ {r}
  /\ currentPage' = IF r.ok THEN r.page ELSE currentPage
  /\ opOrders' = IF r.ok THEN [opOrders EXCEPT ![FollowedOp] = PageRows(orders, r.page)]
                         ELSE opOrders
  /\ opError' = [opError EXCEPT ![FollowedOp] = ~r.ok]
  /\ pollDue' = IF currentPage' # currentPage THEN now + POLL_INTERVAL_MS ELSE pollDue
  /\ ev' = IF r.by \in BackgroundTriggers
             THEN (IF r.ok THEN "backgroundReadResponse" ELSE "backgroundReadFailed")
             ELSE (IF r.ok THEN "pageReadResponse" ELSE "pageReadFailed")
  /\ UNCHANGED <<now, lastFetchRef, pushTimers, lastFetch, pushes, userFetches>>
  /\ UNCHANGED pollFrame


InitPoll ==
  /\ orders = [i \in OrderIds |-> NoOrder]
  /\ nextId = 1
  /\ createRet = NullRet
  /\ createArg = NoStatus /\ createData = NoData
  /\ opOrders = [p \in Ops |-> AbsentPage]
  /\ opError = [p \in Ops |-> FALSE]
  /\ rejectingOrderId = [p \in Ops |-> NoId]
  /\ opInflight = {}
  /\ ev = "init"
  /\ host = "ctx" /\ variant = 1
  /\ InitCustomerIdle
  /\ now = MountTime
  /\ lastFetchRef = 0
  /\ pollDue = MountTime + POLL_INTERVAL_MS
  /\ pushTimers = {}
  /\ currentPage = 1
  /\ \E ok \in BOOLEAN : pageReads = IssuePageRead({}, 1, "mount", ok)
  /\ lastFetch = [at |-> MountTime, by |-> "mount"]
  /\ pushes = 0 /\ userFetches = 0
  /\ hook = "paged"
  /\ isAdminRoute = TRUE
  /\ chan = NoChannel
  /\ agg = NoDetails
  /\ InitPriceIdle

NextPoll ==
  \/ Advance
  \/ \E ok \in BOOLEAN : PollTimerFires(ok)
  \/ PostgresChanges
  \/ \E x \in pushTimers, ok \in BOOLEAN : PushTimeoutFires(x, ok)
  \/ \E ok \in BOOLEAN : ManualRefresh(ok)
  \/ \E p \in Pages, ok \in BOOLEAN : HandlePageChange(p, ok)
  \/ \E ok \in BOOLEAN : StatusUpdateRefresh(ok)
  \/ \E r \in pageReads : PageReadResponse(r)

SpecPoll == InitPoll /\ [][NextPoll]_vars

(***************************************************************************)
(* Pricing: the card of one item, viewed by one member or by nobody        *)
(***************************************************************************)
priceFrame == <<storeVars, opVars, host, variant, persisted, hostVars, dlg, inflight,
                histVars, loadedWith, hook, pollVars, formVars>>

\* the price of a variation is computed for display or for an order line
GetPrice(v) ==
  /\ priceArg' = v
  /\ priceOut' =
       [f \in PriceFns |->
          CASE f = "getDiscountedPrice" ->
                 getDiscountedPrice(currentMember, item, v.price, v)
            [] f = "getDiscountedPriceSync" ->
                 getDiscountedPriceSync(currentMember, item, memberDiscounts, v.price, v)
            [] OTHER -> getDiscountedPriceSingle(item, v.price)]
  /\ ev' = "getPrice"
  /\ UNCHANGED <<currentMember, item, memberDiscounts>>
  /\ UNCHANGED priceFrame

\* the member logs in or out (useMemberAuth currentMember)
SetCurrentMember(m) ==
  /\ m # currentMember
  /\ currentMember' = m
  /\ ev' = "setCurrentMember"
  /\ UNCHANGED <<item, memberDiscounts, priceArg, priceOut>>
  /\ UNCHANGED priceFrame

InitPricing ==
  /\ orders = [i \in OrderIds |-> NoOrder]
  /\ nextId = 1
  /\ createRet = NullRet
  /\ createArg = NoStatus /\ createData = NoData
  /\ opOrders = [p \in Ops |-> AbsentPage]
  /\ opError = [p \in Ops |-> FALSE]
  /\ rejectingOrderId = [p \in Ops |-> NoId]
  /\ opInflight = {}
  /\ ev = "init"
  /\ host = "item" /\ variant = 1
  /\ InitCustomerIdle
  /\ InitPollIdle
  /\ hook = "paged"
  /\ currentMember = NoMember
  /\ item \in Items
  /\ memberDiscounts \in {Unset, 3500}
  /\ priceArg = NoVariation
  /\ priceOut = NoPrices

NextPricing ==
  \/ \E v \in AllVariations : GetPrice(v)
  \/ \E m \in UserTypes \cup {NoMember} : SetCurrentMember(m)

SpecPricing == InitPricing /\ [][NextPricing]_vars

(***************************************************************************)
(* The order form of GameItemOrderModal: the customer fills it in and      *)
(* submits it                                                              *)
(***************************************************************************)
formFrame == <<storeVars, opVars, host, variant, persisted, hostVars, dlg, inflight,
               histVars, loadedWith, auxVars>>

\* the form is on screen and not covered by the order status dialog
FormVisible == host = "item" /\ showOrderModal /\ ~isOrderStatusOpen

\* useImageUpload `uploading`: an uploadImage call has not returned yet
uploadingReceipt(ups) == \E u \in ups : u.kind = "upload"

\* a handler of the form has run: the render, and the activeUserIdx effect
\* when accounts.length or userSelections changed
FormStep(f, selectionsReplaced) ==
  /\ form' = IF selectionsReplaced \/ Len(f.accounts) # Len(form.accounts)
               THEN [f EXCEPT !.activeUserIdx = FirstUnassigned(f.accounts, f.userSelections)]
               ELSE f
  /\ ev' = "formEdit"
  /\ UNCHANGED formFrame

\* GameItemOrderModal.assignPackageToUser
assignPackageToUser(f, accIdx, variation, qty) ==
  [f EXCEPT !.userSelections[accIdx] = [variation |-> variation, quantity |-> qty]]

\* a package of the grid is clicked
ClickVariation(v) ==
  /\ FormVisible
  /\ IF Len(form.accounts) > 1 /\ form.activeUserIdx # NoIdx
       THEN FormStep(assignPackageToUser(form, form.activeUserIdx, v,
                        IF form.userSelections[form.activeUserIdx] # NoSel
                          THEN form.userSelections[form.activeUserIdx].quantity ELSE 1),
                     TRUE)
       ELSE FormStep([form EXCEPT !.selectedVariation = v], FALSE)
  /\ UNCHANGED uploads

\* the quantity controls of the single-account form: minus, plus, typed value
\* (parseInt(value) || 1)
SetQuantity(n) ==
  /\ FormVisible
  /\ Len(form.accounts) = 1 /\ form.selectedVariation # NoVariation
  /\ n <= MaxQty
  /\ FormStep([form EXCEPT !.quantity = ClampQuantity(IF n = 0 THEN 1 ELSE n)], FALSE)
  /\ UNCHANGED uploads

\* GameItemOrderModal.updateUserQuantity
updateUserQuantity(f, accIdx, newQty) ==
  IF f.userSelections[accIdx] = NoSel THEN f
  ELSE [f EXCEPT !.userSelections[accIdx].quantity = ClampQuantity(newQty)]

\* the quantity controls of one account's selection: minus, plus, typed value
UpdateUserQuantity(idx, n) ==
  /\ FormVisible
  /\ Len(form.accounts) > 1 /\ idx < Len(form.accounts)
  /\ form.userSelections[idx] # NoSel
  /\ n <= MaxQty
  /\ FormStep(updateUserQuantity(form, idx, IF n = 0 THEN 1 ELSE n),
              TRUE)
  /\ UNCHANGED uploads

\* GameItemOrderModal.addAccount
AddAccount ==
  /\ FormVisible
  /\ Len(form.accounts) < MaxAccounts
  /\ FormStep([form EXCEPT !.accounts = Append(@, "")], FALSE)
  /\ UNCHANGED uploads

\* GameItemOrderModal.removeAccount
removeAccount(f, idx) ==
  IF Len(f.accounts) <= 1 THEN f
  ELSE [f EXCEPT
          !.accounts = [k \in 1..(Len(f.accounts) - 1) |->
                          IF k - 1 < idx THEN f.accounts[k] ELSE f.accounts[k + 1]],
          !.userSelections = [i \in AccountIdx |->
                                IF i < idx THEN f.userSelections[i]
                                ELSE IF i + 1 \in AccountIdx THEN f.userSelections[i + 1]
                                ELSE NoSel]]

\* the remove button, shown for every account but the first
RemoveAccount(idx) ==
  /\ FormVisible
  /\ idx > 0 /\ idx < Len(form.accounts)
  /\ FormStep(removeAccount(form, idx), TRUE)
  /\ UNCHANGED uploads

\* GameItemOrderModal.updateAccountField
UpdateAccountField(idx, value) ==
  /\ FormVisible
  /\ idx < Len(form.accounts)
  /\ form.accounts[idx + 1] # value
  /\ FormStep([form EXCEPT !.accounts[idx + 1] = value], FALSE)
  /\ UNCHANGED uploads

\* GameItemOrderModal.handleChangePackageFor
HandleChangePackageFor(idx) ==
  /\ FormVisible
  /\ Len(form.accounts) > 1 /\ idx < Len(form.accounts)
  /\ form.userSelections[idx] # NoSel
  /\ form.activeUserIdx # idx
  /\ FormStep([form EXCEPT !.activeUserIdx = idx], FALSE)
  /\ UNCHANGED uploads

\* a payment method is clicked
SetPaymentMethodId(pm) ==
  /\ FormVisible
  /\ form.paymentMethodId # pm
  /\ FormStep([form EXCEPT !.paymentMethodId = pm], FALSE)
  /\ UNCHANGED uploads

\* GameItemOrderModal.handleReceiptUpload up to its await: the file input is
\* shown while there is no preview and is disabled while uploading
HandleReceiptUpload(file) ==
  /\ FormVisible
  /\ form.receiptPreview = NoFile /\ ~uploadingReceipt(uploads)
  /\ uploads' = uploads \cup {[kind |-> "reader", file |-> file],
                              [kind |-> "upload", file |-> file]}
  /\ FormStep([form EXCEPT !.receiptFile = file], FALSE)

\* reader.onload of handleReceiptUpload
ReaderLoaded(u) ==
  /\ u \in uploads /\ u.kind = "reader"
  /\ uploads' = uploads \ {u}
  /\ FormStep([form EXCEPT !.receiptPreview = u.file], FALSE)

\* handleReceiptUpload after its await: uploadImage returned the url, or threw
UploadReturned(u, ok) ==
  /\ u \in uploads /\ u.kind = "upload"
  /\ uploads' = uploads \ {u}
  /\ IF ok
       THEN FormStep([form EXCEPT !.receiptImageUrl = u.file], FALSE)
       ELSE FormStep([form EXCEPT !.receiptFile = NoFile, !.receiptPreview = NoFile], FALSE)

\* GameItemOrderModal.handleReceiptRemove
handleReceiptRemove(f) ==
  [f EXCEPT !.receiptFile = NoFile, !.receiptImageUrl = NoFile, !.receiptPreview = NoFile]

\* the remove button next to the preview
HandleReceiptRemove ==
  /\ FormVisible
  /\ form.receiptPreview # NoFile
  /\ FormStep(handleReceiptRemove(form), FALSE)
  /\ UNCHANGED uploads

\* GameItemOrderModal.handlePlaceOrder, from the enabled submit button
SubmitForm(storeOk) ==
  /\ FormVisible
  /\ isFormValid(item, form)
  /\ form.paymentMethodId # NoPayment /\ form.receiptImageUrl # NoFile
  /\ createOrder([status |-> NoStatus, data |-> OrderData(currentMember, item, form)],
                 storeOk)
  /\ HostStep(IF storeOk THEN "submitForm" ELSE "submitFormFailed",
              handlePlaceOrderResult(Cur, createRet', TRUE), {}, {}, orders')
  /\ UNCHANGED opVars

\* the parts of the state the form does not touch, as after construction
InitFormFrame ==
  /\ orders = [i \in OrderIds |-> NoOrder]
  /\ nextId = 1
  /\ createRet = NullRet
  /\ createArg = NoStatus /\ createData = NoData
  /\ opOrders = [p \in Ops |-> AbsentPage]
  /\ opError = [p \in Ops |-> FALSE]
  /\ rejectingOrderId = [p \in Ops |-> NoId]
  /\ opInflight = {}
  /\ ev = "init"
  /\ host = "item" /\ variant = 2
  /\ persisted = NoId
  /\ ctxOrderId = NoId /\ ctxShow = FALSE
  /\ processingOrderId = NoId /\ currentOrderStatus = NoStatus
  /\ isOrderModalOpen = FALSE
  /\ itemOrderId = NoId /\ isOrderStatusOpen = FALSE
  /\ dlg = InitialDlg
  /\ inflight = {}
  /\ termObserved = FALSE /\ lateFetch = FALSE /\ shownTerminal = NoId
  /\ loadedWith = NoId
  /\ InitPollIdle
  /\ hook = "paged"
  /\ memberDiscounts = Unset
  /\ priceArg = NoVariation
  /\ priceOut = NoPrices

\* the card is open and the customer has already uploaded the receipt; the
\* rest of the form is still to be filled in
InitForm ==
  /\ InitFormFrame
  /\ showOrderModal = TRUE
  /\ LET file == CHOOSE x \in Files : \A y \in Files : x <= y
     IN form = [FormDefaults EXCEPT !.receiptFile = file, !.receiptPreview = file,
                                    !.receiptImageUrl = file]
  /\ uploads = {}
  /\ currentMember \in {NoMember, "reseller"}
  /\ item \in {it \in Items : it.isOnDiscount /\ it.discountPercentage # Unset}

NextForm ==
  \/ \E v \in ItemVariations : ClickVariation(v)
  \/ \E n \in 0..MaxQty : SetQuantity(n)
  \/ \E idx \in AccountIdx, n \in 0..MaxQty : UpdateUserQuantity(idx, n)
  \/ AddAccount
  \/ \E idx \in AccountIdx : RemoveAccount(idx)
  \/ \E idx \in AccountIdx, value \in FieldValues : UpdateAccountField(idx, value)
  \/ \E idx \in AccountIdx : HandleChangePackageFor(idx)
  \/ \E pm \in PaymentMethods : SetPaymentMethodId(pm)
  \/ \E storeOk \in BOOLEAN : SubmitForm(storeOk)

SpecForm == InitForm /\ [][NextForm]_vars

\* the card is closed; the customer orders for one account and the receipt's
\* upload is followed step by step
InitReceipt ==
  /\ InitFormFrame
  /\ showOrderModal = FALSE
  /\ form = FormDefaults
  /\ uploads = {}
  /\ currentMember = NoMember
  /\ item \in {it \in Items : it.isOnDiscount /\ it.discountPercentage # Unset}

NextReceipt ==
  \/ HandleCardClick
  \/ HandleClose
  \/ \E v \in ItemVariations : ClickVariation(v)
  \/ \E value \in FieldValues : UpdateAccountField(0, value)
  \/ \E pm \in PaymentMethods : SetPaymentMethodId(pm)
  \/ \E file \in Files : HandleReceiptUpload(file)
  \/ \E u \in uploads : ReaderLoaded(u)
  \/ \E u \in uploads, ok \in BOOLEAN : UploadReturned(u, ok)
  \/ HandleReceiptRemove
  \/ \E storeOk \in BOOLEAN : SubmitForm(storeOk)

SpecReceipt == InitReceipt /\ [][NextReceipt]_vars

(***************************************************************************)
(* Properties of the trackers and the dialog (SpecCustomer)                *)
(***************************************************************************)
\* what the open dialog shows, and for which order
Shown == Display(CurProps.isOpen, dlg)
ShowsTerminal == IsTerminal(Shown)
Watched == CurProps.orderId

\* the calls this step answered
Answered == inflight \ inflight'

CheckResponses == {"checkPendingOrderResponse", "checkProcessingOrderResponse"}
CloseContinuations == {"handleModalCloseResponse", "handleModalCloseFailed",
                       "itemOnCloseResponse", "itemOnCloseFailed"}

\* C2: once the open dialog has displayed its order as approved or rejected,
\* no poll tick, effect re-run or late response makes it display pending,
\* processing, Loading or NotFound while it stays open for the same order id.
C2_TerminalDisplayStays ==
  shownTerminal # NoId => /\ ShowsTerminal
                          /\ dlg.order.id = shownTerminal

\* C3: while the dialog stays open for an order id, once it has handled a
\* response with status approved or rejected it issues no further
\* fetchOrderById call for that order.
C3_NoFetchAfterTerminal == ~lateFetch

\* C4: a click on the close icon while the dialog displays an approved or a
\* rejected order is routed to the terminal-close callback and leaves no
\* persisted watched-order id behind.
C4_TerminalCloseForgets ==
  [][(ShowsTerminal /\ ev' \in {"onClose", "onSucceededClose"})
        => /\ ev' = "onSucceededClose"
           /\ persisted' = NoId]_vars

\* C5: a click on the close icon while the dialog displays a pending or
\* processing order hides the dialog and changes neither the persisted id nor
\* the in-memory watched id, in the click or in what the handler does once its
\* own read of the remote order is answered.
C5_PlainDismissKeepsWatch ==
  [][/\ (IsInProgress(Shown) /\ ev' = "onClose")
          => /\ ~CurProps'.isOpen
             /\ persisted' = persisted
             /\ Watched' = Watched
     /\ \A r \in Answered :
          (ev' \in CloseContinuations /\ IsInProgress(r.shown))
             => /\ persisted' = persisted
                /\ Watched' = Watched]_vars

\* C6: the persisted watched-order id is removed only by the terminal-close
\* action on a dialog that displays a terminal order, or by a load-time check
\* whose read found no row; never by a poll whose read failed, a plain
\* dismiss, or a check that found a terminal order.
C6_ForgetOnlyOnTerminalClose ==
  [][(persisted # NoId /\ persisted' = NoId)
        => \/ ev' = "onSucceededClose" /\ ShowsTerminal
           \/ /\ ev' \in CheckResponses
              /\ \E r \in Answered : r.row = NullOrder]_vars

C8_NotFoundForgets ==
  [][\A r \in Answered :
       (ev' \in CheckResponses /\ r.row = NullOrder)
          => /\ persisted' = NoId
             /\ Watched' = NoId
             /\ ~CurProps'.isOpen]_vars

AllowedTransition(from, to) ==
  \/ from = NoStatus /\ to = "pending"
  \/ from = "pending" /\ to \in {"processing", "approved", "rejected"}
  \/ from = "processing" /\ to \in {"approved", "rejected"}

\* C1: whatever createOrder / updateOrderStatus calls the operator sessions
\* issue from their own, possibly stale, pages, the stored status of an order
\* only moves pending -> processing -> approved|rejected or pending ->
\* approved|rejected, and never changes once it is approved or rejected.
C1_StatusOnlyMovesForward ==
  [][\A id \in OrderIds :
       orders'[id].status # orders[id].status
         => AllowedTransition(orders[id].status, orders'[id].status)]_vars

\* C10: a successful createOrder inserts exactly one row, with status pending
\* whatever status the caller passed, and returns the id the server assigned
\* to it; a createOrder the store refuses returns null and inserts nothing.
C10_CreateOrderForcesPending ==
  [][/\ ev' = "createOrder" =>
          /\ createRet'.id = nextId
          /\ orders[nextId] = NoOrder
          /\ orders'[nextId].status = "pending"
          /\ createRet'.status = "pending"
          /\ \A id \in OrderIds \ {nextId} : orders'[id] = orders[id]
     /\ ev' = "createOrderFailed" =>
          /\ createRet' = NullRet
          /\ orders' = orders]_vars

\* C13: every stored order with a rejection_reason has status rejected; a
\* successful update to a status other than rejected leaves no
\* rejection_reason on the row, and a successful update to rejected with a
\* reason leaves that reason on the row.
C13_ReasonOnlyOnRejected ==
  [][/\ \A id \in OrderIds :
          orders'[id].rejection_reason # NoReason => orders'[id].status = "rejected"
     /\ \A op \in Ops :
          (/\ ev' = "handleRejectConfirm"
           /\ rejectingOrderId[op] # NoId /\ rejectingOrderId'[op] = NoId
           /\ orders[rejectingOrderId[op]].status # NoStatus)
            => /\ orders'[rejectingOrderId[op]].status = "rejected"
               /\ orders'[rejectingOrderId[op]].rejection_reason \in Reasons]_vars

\* a createOrder call that was passed status approved has just returned the
\* row it inserted
C10_Witness ==
  /\ ev = "createOrder"
  /\ createArg = "approved"
  /\ createRet.id \in OrderIds
  /\ orders[createRet.id].status = "pending"

(***************************************************************************)
(* Properties of the page refresh of useOrders (SpecPoll)                  *)
(***************************************************************************)
TypeOKPoll ==
  /\ now \in MountTime..(MountTime + MaxTime)
  /\ lastFetchRef \in 0..now
  /\ pollDue \in now..(now + POLL_INTERVAL_MS)
  /\ \A x \in pushTimers : x.due \in now..(now + PushDelayMs) /\ x.page \in Pages
  /\ currentPage \in Pages
  /\ Cardinality(pageReads) <= MaxPageReads
  /\ lastFetch.by \in Triggers /\ lastFetch.at \in MountTime..now
  /\ pushes \in 0..MaxPushes /\ userFetches \in 0..MaxUserFetches

\* C11: when a change is pushed less than MIN_FETCH_INTERVAL_MS after a page
\* fetch that the poll timer issued, the push issues no second page fetch: a
\* poll fetch is not followed by a push fetch inside the guard window.
C11_PushAfterPollFetchesOnce ==
  [][(lastFetch.by = "poll"
        /\ now - lastFetch.at < MIN_FETCH_INTERVAL_MS
        /\ lastFetch' # lastFetch)
       => lastFetch'.by # "push"]_vars

\* C12: a run of the poll timer's callback less than MIN_FETCH_INTERVAL_MS
\* after the most recent page fetch issues no fetch, whatever issued that
\* fetch.
C12_TickAfterAnyFetchSkips ==
  [][(ev' \in {"pollFetch", "pollSkipped"}
        /\ now - lastFetch.at < MIN_FETCH_INTERVAL_MS)
       => /\ ev' = "pollSkipped"
          /\ lastFetch' = lastFetch
          /\ pageReads' = pageReads]_vars

(***************************************************************************)
(* Properties of the pricing functions (SpecPricing)                       *)
(***************************************************************************)
\* the price the priority chain gives: the reseller price for a reseller when
\* set, else the member price for an end_user member when set, else the base
\* price less the discount percentage when the item is on discount, else the
\* base price
ChainPrice(member, it, v) ==
  IF member = "reseller" /\ v.reseller_price # Unset THEN v.reseller_price
  ELSE IF member = "end_user" /\ v.member_price # Unset THEN v.member_price
  ELSE IF it.isOnDiscount /\ it.discountPercentage # Unset
    THEN (v.price * (DiscountScale - it.discountPercentage)) \div DiscountScale
  ELSE v.price

\* C14: for every variation, viewer and discount setting, each pricing
\* function of the repository returns the price of the priority chain.
C14_PriceFollowsChain ==
  ev = "getPrice" =>
    \A f \in PriceFns : priceOut[f] = ChainPrice(currentMember, item, priceArg)

(***************************************************************************)
(* Properties of the order form (SpecForm)                                 *)
(***************************************************************************)
TypeOKForm ==
  /\ Len(form.accounts) \in 1..MaxAccounts
  /\ \A i \in AccountIdx : form.userSelections[i] \in Selections \cup {NoSel}
  /\ \A i \in AccountIdx : i >= Len(form.accounts) => form.userSelections[i] = NoSel
  /\ form.quantity \in 1..MaxQty
  /\ form.activeUserIdx \in AccountIdx \cup {NoIdx}
  /\ form.activeUserIdx # NoIdx => form.activeUserIdx < Len(form.accounts)

\* the order data handed to createOrder by the step just taken
Submitted == ev \in {"submitForm", "submitFormFailed"}

VariationOfLine(line) == CHOOSE v \in ItemVariations : v.id = line.variation

\* sum of totalPrice * quantity over the lines from position k
RECURSIVE SumOfLines(_, _)
SumOfLines(lines, k) ==
  IF k > Len(lines) THEN 0
  ELSE lines[k].totalPrice * lines[k].quantity + SumOfLines(lines, k + 1)

\* C15: the total_price of an order placed from the form equals the sum over
\* its order_items of totalPrice * quantity, and each line carries the price
\* getDiscountedPrice gives for that line's own variation
C15_TotalIsSumOfLines ==
  Submitted =>
    /\ createData.total_price = SumOfLines(createData.order_items, 1)
    /\ \A k \in 1..Len(createData.order_items) :
         createData.order_items[k].totalPrice
           = getDiscountedPrice(currentMember, item,
                                VariationOfLine(createData.order_items[k]).price,
                                VariationOfLine(createData.order_items[k]))

\* two accounts with different packages, one of them bought twice, are submitted
C15_Witness ==
  /\ Submitted
  /\ Len(form.accounts) = 2
  /\ Len(createData.order_items) = 3
  /\ \E j, k \in 1..Len(createData.order_items) :
       createData.order_items[j].totalPrice # createData.order_items[k].totalPrice

\* the quantities the customer selected, over the accounts from index i
RECURSIVE SelectedQuantity(_, _)
SelectedQuantity(f, i) ==
  IF i > MaxAccounts - 1 THEN 0
  ELSE (IF f.userSelections[i] = NoSel THEN 0 ELSE f.userSelections[i].quantity)
       + SelectedQuantity(f, i + 1)

\* C16: every line item of an order placed from the form has quantity 1, and
\* there are as many line items as the quantities selected add up to
C16_OneLinePerUnit ==
  Submitted =>
    /\ \A k \in 1..Len(createData.order_items) : createData.order_items[k].quantity = 1
    /\ Len(createData.order_items)
         = IF Len(form.accounts) = 1 THEN form.quantity ELSE SelectedQuantity(form, 0)

\* one account buys a package twice
C16_Witness ==
  /\ Submitted
  /\ Len(form.accounts) = 1 /\ form.quantity = 2
  /\ Len(createData.order_items) = 2

\* the accounts of the form that have a package assigned
AccountsWithPackage(f) ==
  {i \in AccountIdx : i < Len(f.accounts) /\ f.userSelections[i] # NoSel}

\* C17: a multi-account order carries exactly one group per account that
\* has a package assigned, each with that account's package name and that
\* account's own field values
C17_GroupPerAccount ==
  Submitted /\ Len(form.accounts) > 1 =>
    /\ Len(createData.groups) = Cardinality(AccountsWithPackage(form))
    /\ \A i \in AccountsWithPackage(form) :
         \E k \in 1..Len(createData.groups) :
           /\ createData.groups[k].package = form.userSelections[i].variation.name
           /\ createData.groups[k].fields = form.accounts[i + 1]

\* C18: whenever the submit button is enabled, a payment method is selected
\* and every account of the form has a variation selected (selectedVariation
\* with one account, an entry of userSelections per account otherwise)
C18_EveryAccountSelected ==
  FormVisible /\ isFormValid(item, form) =>
    /\ form.paymentMethodId # NoPayment
    /\ IF Len(form.accounts) = 1
         THEN form.selectedVariation # NoVariation
         ELSE \A i \in 0..(Len(form.accounts) - 1) : form.userSelections[i] # NoSel

(***************************************************************************)
(* Properties of the receipt upload (SpecReceipt)                          *)
(***************************************************************************)
\* the receipt the form holds was uploaded successfully, has not been
\* removed and no upload is pending
ReceiptUploaded(f, ups) ==
  /\ f.receiptFile # NoFile
  /\ f.receiptImageUrl = f.receiptFile
  /\ ~uploadingReceipt(ups)

\* C19: under every interleaving of upload start, success, failure and
\* removal the submit button is enabled only while the receipt the form
\* holds is uploaded, and no order is created with an empty receipt_url
C19_SubmitOnlyWhenUploaded ==
  /\ FormVisible /\ isFormValid(item, form) => ReceiptUploaded(form, uploads)
  /\ Submitted => createData.receipt_url # NoFile

(***************************************************************************)
(* Failed fetches of the open dialog (SpecCustomer)                        *)
(***************************************************************************)
\* C20: while the open dialog displays an order, a loadOrder whose fetch
\* failed leaves the displayed order as it was, does not move the dialog to
\* Loading or NotFound, and leaves the poll running so that the next tick
\* fetches again
C20_FailedFetchKeepsOrder ==
  [][(ev' = "loadOrderFailed" /\ CurProps.isOpen /\ dlg.order # NullOrder)
       => /\ dlg'.order = dlg.order
          /\ Display(CurProps.isOpen, dlg') = Display(CurProps.isOpen, dlg)
          /\ (PollFires(variant, dlg) => PollFires(variant, dlg'))]_vars

(***************************************************************************)
(* The dialog opened on an order that is not in the store: every           *)
(* fetchOrderById call is answered in the end (SpecCustomerFair)           *)
(***************************************************************************)
SpecCustomerFair ==
  /\ SpecCustomer
  /\ \A isInitial \in BOOLEAN :
       WF_vars(\E r \in inflight, netOk \in BOOLEAN :
                 r.initial = isInitial /\ LoadOrderResponse(r, netOk))

\* the dialog is open on an id that has no row in the store, shows no order,
\* and no loadOrder call in flight has read a row
OpenOnMissing ==
  /\ CurProps.isOpen /\ CurProps.orderId # NoId
  /\ StoreSelect(orders, CurProps.orderId) = NullOrder
  /\ dlg.order = NullOrder
  /\ \A r \in inflight : r.kind = "loadOrder" => r.row = NullOrder

C22_BackgroundFailureSilent ==
  [][ev' = "backgroundReadFailed"
       => /\ opOrders' = opOrders
          /\ currentPage' = currentPage
          /\ opError' = opError
          /\ pollDue' = pollDue]_vars

(***************************************************************************)
(* Late answers to the dialog's fetches (SpecCustomer)                     *)
(***************************************************************************)
\* C23: the order the open dialog displays has the id the dialog is watching;
\* an answer to a fetch issued for another id, or before the dialog was
\* closed, does not put another order on display
C23_DisplayedIsWatched ==
  CurProps.isOpen /\ dlg.order # NullOrder => dlg.order.id = CurProps.orderId

(***************************************************************************)
(* The page a background refresh reads (SpecPoll)                          *)
(***************************************************************************)
\* the page the operator most recently asked for: the page of a page change
\* still in flight, else the page on display
RequestedPage ==
  IF \E r \in pageReads : r.by = "page"
    THEN (CHOOSE r \in pageReads : r.by = "page").page
    ELSE currentPage

\* C24: a refresh issued by the poll timer or by a push reads the page the
\* operator most recently requested, and its answer never changes currentPage
C24_BackgroundKeepsPage ==
  [][/\ ev' \in {"pollFetch", "pushFetch"}
          => \A r \in pageReads' \ pageReads : r.page = RequestedPage
     /\ ev' \in {"backgroundReadResponse", "backgroundReadFailed"}
          => currentPage' = currentPage]_vars

(***************************************************************************)
(* useOrders.createOrder with its refresh: one hook instance, mounted on   *)
(* the admin route or in the customer context                              *)
(***************************************************************************)
\* orders.length > 0 of the instance
Loaded(op) == opOrders[op] # AbsentPage

\* the fetch of the mount effect: the paged hook fetches on the admin route
\* only, the plain hook on every mount
FetchesOnMount(h, adminRoute) == h = "plain" \/ adminRoute

\* setOrders(prev => [data, ...prev]) of the paged hook when a list is loaded
createOrderPrepends(h, loaded) == h = "paged" /\ loaded

\* await fetchOrders(1) of the paged hook: admin route, nothing loaded
createOrderFetchesFirstPage(h, adminRoute, loaded) ==
  h = "paged" /\ ~loaded /\ adminRoute

\* the refresh after the insert: the paged hook tests isAdminRoute, the plain
\* hook tests orders.length > 0
createOrderRefreshes(h, adminRoute, loaded) ==
  IF h = "plain" THEN loaded ELSE adminRoute

\* createOrder of the followed instance; the awaited fetchOrders(1) is taken
\* with its answer, the refresh that follows is left in flight
CreateOrderIn(storeOk, firstOk, fetchOk) ==
  LET op == FollowedOp
      loaded == Loaded(op)
      first == createOrderFetchesFirstPage(hook, isAdminRoute, loaded)
  IN
  /\ Cardinality(opInflight) < MaxOpInflight
  /\ createOrder([status |-> NoStatus, data |-> NoData], storeOk)
  /\ IF storeOk
       THEN LET prepended == IF createOrderPrepends(hook, loaded)
                               THEN [opOrders[op] EXCEPT ![nextId] = orders'[nextId].status]
                               ELSE opOrders[op]
            IN /\ opOrders' = [opOrders EXCEPT ![op] =
                                 IF first /\ firstOk THEN PageSnapshot(orders')
                                 ELSE prepended]
               /\ opError' = [opError EXCEPT ![op] = IF first THEN ~firstOk ELSE @]
               /\ opInflight' = IF createOrderRefreshes(hook, isAdminRoute, loaded)
                                  THEN IssuePageFetch(opInflight, op, orders', fetchOk)
                                  ELSE opInflight
       ELSE /\ opError' = [opError EXCEPT ![op] = TRUE]
            /\ UNCHANGED <<opOrders, opInflight>>
  /\ ev' = IF storeOk THEN "createOrderIn" ELSE "createOrderInFailed"
  /\ UNCHANGED rejectingOrderId
  /\ UNCHANGED custVars

\* a later fetch of the instance: manual refresh on the admin route, the
\* interval of the plain hook anywhere
Refetch(ok) ==
  /\ FetchesOnMount(hook, isAdminRoute)
  /\ FetchOrders(FollowedOp, ok)

InitCreate ==
  /\ orders = [i \in OrderIds |-> NoOrder]
  /\ nextId = 1
  /\ createRet = NullRet
  /\ createArg = NoStatus /\ createData = NoData
  /\ opOrders = [p \in Ops |-> AbsentPage]
  /\ opError = [p \in Ops |-> FALSE]
  /\ rejectingOrderId = [p \in Ops |-> NoId]
  /\ ev = "init"
  /\ host = "ctx" /\ variant = 1
  /\ InitCustomerIdle
  /\ now = 0 /\ lastFetchRef = 0 /\ pollDue = 0
  /\ pushTimers = {} /\ currentPage = 1 /\ pageReads = {}
  /\ lastFetch = NoFetch /\ pushes = 0 /\ userFetches = 0
  /\ InitPriceIdle
  /\ hook \in HookVersions
  /\ isAdminRoute \in BOOLEAN
  /\ chan = NoChannel
  /\ agg = NoDetails
  /\ \E ok \in BOOLEAN :
       opInflight = IF FetchesOnMount(hook, isAdminRoute)
                      THEN IssuePageFetch({}, FollowedOp, orders, ok)
                      ELSE {}

NextCreate ==
  \/ \E storeOk \in BOOLEAN, firstOk \in BOOLEAN, fetchOk \in BOOLEAN :
       CreateOrderIn(storeOk, firstOk, fetchOk)
  \/ \E ok \in BOOLEAN : Refetch(ok)
  \/ \E r \in opInflight : FetchOrdersResponse(r)
  \/ \E ok \in BOOLEAN : CreateOrder(NoStatus, ok)
  \/ \E id \in OrderIds, s \in OrderStatus : OperatorWrite(id, s, NoReason)

SpecCreate == InitCreate /\ [][NextCreate]_vars

\* C26: a successful createOrder issued off the admin route issues no page
\* fetch and leaves orders and currentPage of the instance as they were;
\* issued on the admin route it issues a refresh
C26_CreateRefreshOnAdminOnly ==
  [][ev' = "createOrderIn"
       => IF isAdminRoute
            THEN \E r \in opInflight' :
                   r.op = FollowedOp /\ r.snap = PageSnapshot(orders')
            ELSE /\ opInflight' = opInflight
                 /\ opOrders' = opOrders
                 /\ currentPage' = currentPage]_vars

\* the realtime effect instance that armed a push timer is the live one: the
\* effect is set up again (and the old one torn down) whenever currentPage
\* changes, and a timer keeps the page its instance closed over
OfLiveEffect(x) == x.page = currentPage

\* C30: once the realtime effect is torn down nothing it created acts: a
\* delayed push refresh timer that fires a fetch was armed by the live
\* effect instance
C30_TornDownTimersSilent ==
  [][ev' = "pushFetch"
       => \A x \in pushTimers \ pushTimers' : OfLiveEffect(x)]_vars

(***************************************************************************)
(* The paged useOrders on the admin route without a clock: the orders      *)
(* channel, its reconnect timer and the polling fallback (the plain hook   *)
(* subscribes without a status callback and has no reconnect timer). Time  *)
(* is kept only as far as                                                  *)
(* PollSuppressed needs it: the clock is rebased at every write of         *)
(* lastFetchRef and Elapse moves it past the suppression window            *)
(***************************************************************************)
MaxEvents == 1      \* change events queued for the channel at a time

ReconnectDelayMs == 5000
ChannelFailures == {"CHANNEL_ERROR", "TIMED_OUT", "CLOSED"}
ChannelStatuses == {"SUBSCRIBED"} \cup ChannelFailures

\* setupSubscription: a new channel, joining
NewChannel == [status |-> "joining", reconnectTimeout |-> NoTimer, events |-> 0]

\* the subscribe callback arms setTimeout(setupSubscription, 5000) on every
\* failure status
SchedulesReconnect(status) == status \in ChannelFailures

channelFrame == <<nextId, createRet, createArg, createData, rejectingOrderId,
                  opInflight, host, variant, persisted, hostVars, dlg, inflight,
                  histVars, loadedWith, hook, isAdminRoute, priceVars, formVars,
                  pollDue, lastFetch, pushes, userFetches, agg>>

\* lastFetchRef.current = Date.now(), on the rebased clock
MarkFetch ==
  /\ now' = 0
  /\ lastFetchRef' = 0

ReadRoom == Cardinality(pageReads) < MaxPageReads

\* the status the channel reports to the subscribe callback
SubscribeCallback(status) ==
  /\ \/ chan.status = "joining"
     \/ chan.status = "SUBSCRIBED" /\ status \in ChannelFailures
  /\ chan' = [status |-> status,
              reconnectTimeout |-> IF SchedulesReconnect(status)
                                     THEN ReconnectDelayMs
                                     ELSE chan.reconnectTimeout,
              events |-> IF status \in ChannelFailures THEN 0 ELSE chan.events]
  /\ ev' = IF status \in ChannelFailures THEN "subscribeFailed" ELSE "subscribed"
  /\ UNCHANGED <<orders, opOrders, opError, currentPage, pageReads, pushTimers,
                 now, lastFetchRef>>
  /\ UNCHANGED channelFrame

\* the reconnect timer expires: setupSubscription
ReconnectTimeoutFires ==
  /\ chan.reconnectTimeout # NoTimer
  /\ chan' = NewChannel
  /\ ev' = "setupSubscription"
  /\ UNCHANGED <<orders, opOrders, opError, currentPage, pageReads, pushTimers,
                 now, lastFetchRef>>
  /\ UNCHANGED channelFrame

\* a row of the orders table changes; a subscribed channel gets the event
\* (events beyond MaxEvents coalesce)
StoreChange(id, status) ==
  /\ orders[id].status \notin {NoStatus, status}
  /\ orders' = StoreUpdate(orders, id, UpdateData(status, NoReason))
  /\ chan' = IF chan.status = "SUBSCRIBED" /\ chan.events < MaxEvents
               THEN [chan EXCEPT !.events = @ + 1]
               ELSE chan
  /\ ev' = "storeChange"
  /\ UNCHANGED <<opOrders, opError, currentPage, pageReads, pushTimers,
                 now, lastFetchRef>>
  /\ UNCHANGED channelFrame

\* the postgres_changes handler: it marks the fetch time and arms its
\* delayed refresh
ChannelPostgresChanges ==
  /\ chan.events > 0
  /\ chan' = [chan EXCEPT !.events = @ - 1]
  /\ MarkFetch
  /\ pushTimers' = pushTimers \cup {[due |-> PushDelayMs, page |-> currentPage]}
  /\ ev' = "postgresChanges"
  /\ UNCHANGED <<orders, opOrders, opError, currentPage, pageReads>>
  /\ UNCHANGED channelFrame

\* the delayed refresh of the handler
ChannelPushTimeoutFires(x, ok) ==
  /\ x \in pushTimers
  /\ ReadRoom
  /\ pushTimers' = pushTimers \ {x}
  /\ pageReads' = IssuePageRead(pageReads, x.page, "push", ok)
  /\ ev' = "pushFetch"
  /\ UNCHANGED <<orders, opOrders, opError, currentPage, now, lastFetchRef, chan>>
  /\ UNCHANGED channelFrame

\* time passes to the end of the suppression window
Elapse ==
  /\ PollSuppressed(now, lastFetchRef)
  /\ now' = lastFetchRef + MIN_FETCH_INTERVAL_MS
  /\ ev' = "advance"
  /\ UNCHANGED <<orders, opOrders, opError, currentPage, pageReads, pushTimers,
                 lastFetchRef, chan>>
  /\ UNCHANGED channelFrame

\* the setInterval callback: a tick that follows a fetch too closely is
\* skipped
ChannelPollTick(ok) ==
  /\ IF PollSuppressed(now, lastFetchRef)
       THEN /\ ev' = "pollSkipped"
            /\ UNCHANGED <<pageReads, now, lastFetchRef>>
       ELSE /\ ReadRoom
            /\ pageReads' = IssuePageRead(pageReads, currentPage, "poll", ok)
            /\ MarkFetch
            /\ ev' = "pollFetch"
  /\ UNCHANGED <<orders, opOrders, opError, currentPage, pushTimers, chan>>
  /\ UNCHANGED channelFrame

\* OrderManager.handlePageChange
ChannelPageChange(newPage, ok) ==
  /\ newPage # currentPage
  /\ ReadRoom
  /\ pageReads' = IssuePageRead(pageReads, newPage, "page", ok)
  /\ ev' = "handlePageChange"
  /\ UNCHANGED <<orders, opOrders, opError, currentPage, pushTimers, now,
                 lastFetchRef, chan>>
  /\ UNCHANGED channelFrame

\* fetchOrders after its await; a new currentPage tears the realtime effect
\* down (reconnect timer cleared, channel removed) and sets it up again
ChannelReadResponse(r) ==
  /\ r \in pageReads
  /\ pageReads' = pageReads \ {r}
  /\ currentPage' = IF r.ok THEN r.page ELSE currentPage
  /\ opOrders' = IF r.ok THEN [opOrders EXCEPT ![FollowedOp] = PageRows(orders, r.page)]
                         ELSE opOrders
  /\ opError' = [opError EXCEPT ![FollowedOp] = ~r.ok]
  /\ chan' = IF currentPage' # currentPage THEN NewChannel ELSE chan
  /\ ev' = IF r.ok THEN "pageReadResponse" ELSE "pageReadFailed"
  /\ UNCHANGED <<orders, pushTimers, now, lastFetchRef>>
  /\ UNCHANGED channelFrame

\* mounted on the admin route over a store that holds one pending order: the
\* mount fetch is in flight, the channel is joining
InitChannel ==
  /\ orders = StoreInsert([i \in OrderIds |-> NoOrder], 1,
                          [status |-> "pending", rejection_reason |-> NoReason])
  /\ nextId = 2
  /\ createRet = NullRet
  /\ createArg = NoStatus /\ createData = NoData
  /\ opOrders = [p \in Ops |-> AbsentPage]
  /\ opError = [p \in Ops |-> FALSE]
  /\ rejectingOrderId = [p \in Ops |-> NoId]
  /\ opInflight = {}
  /\ ev = "init"
  /\ host = "ctx" /\ variant = 1
  /\ InitCustomerIdle
  /\ now = MIN_FETCH_INTERVAL_MS /\ lastFetchRef = 0 /\ pollDue = 0
  /\ pushTimers = {} /\ currentPage = 1
  /\ \E ok \in BOOLEAN : pageReads = IssuePageRead({}, 1, "mount", ok)
  /\ lastFetch = NoFetch /\ pushes = 0 /\ userFetches = 0
  /\ InitPriceIdle
  /\ hook = "paged"
  /\ isAdminRoute = TRUE
  /\ chan = NewChannel
  /\ agg = NoDetails

NextChannel ==
  \/ \E status \in ChannelStatuses : SubscribeCallback(status)
  \/ ReconnectTimeoutFires
  \/ \E id \in OrderIds, status \in OrderStatus : StoreChange(id, status)
  \/ ChannelPostgresChanges
  \/ \E x \in pushTimers, ok \in BOOLEAN : ChannelPushTimeoutFires(x, ok)
  \/ Elapse
  \/ \E ok \in BOOLEAN : ChannelPollTick(ok)
  \/ \E p \in Pages, ok \in BOOLEAN : ChannelPageChange(p, ok)
  \/ \E r \in pageReads : ChannelReadResponse(r)

SpecChannel == InitChannel /\ [][NextChannel]_vars

\* timers expire, a poll tick issues a fetch that succeeds again and again,
\* and every fetch is answered
SpecChannelFair ==
  /\ SpecChannel
  /\ WF_vars(Elapse)
  /\ SF_vars(ChannelPollTick(TRUE) /\ ev' = "pollFetch")
  /\ \A ok \in BOOLEAN :
       WF_vars(\E r \in pageReads : r.ok = ok /\ ChannelReadResponse(r))

\* the in-memory page holds what the store holds for the current page
InSync == opOrders[FollowedOp] = PageRows(orders, currentPage)

ReconnectScheduled ==
  [][ev' = "subscribeFailed" => chan'.reconnectTimeout = ReconnectDelayMs]_vars

ChangesReflected == []<>(InSync \/ ev = "storeChange")

MaxItems == 2       \* order_items of the selected order
AddOnBase == 10     \* add-on ids and quantities are single digits

Undefined == "undefined"
NoItemVariation == [id |-> Undefined, name |-> Undefined]

ItemNames == {"Diamonds", "Pass"}
CartVariations == {NoItemVariation, [id |-> "v1", name |-> "Small"],
                   [id |-> Undefined, name |-> "Small"]}
AddOnLists == {<<>>,
               <<[id |-> 1, quantity |-> Unset], [id |-> 2, quantity |-> 1]>>,
               <<[id |-> 2, quantity |-> 1], [id |-> 1, quantity |-> 1]>>}
UnitPrices == {10, 20}
ItemQuantities == {Unset} \cup (1..MaxQty)

\* the CartItems an order can hold, as far as aggregateOrderItems reads them
CartItems == [name : ItemNames, selectedVariation : CartVariations,
              selectedAddOns : AddOnLists, totalPrice : UnitPrices,
              quantity : ItemQuantities]

\* item.quantity ?? 1
ItemQty(it) == IF it.quantity = Unset THEN 1 ELSE it.quantity

\* `${a.id}:${a.quantity ?? 1}`; two such texts compare as their numbers do
AddOnText(a) == a.id * AddOnBase + (IF a.quantity = Unset THEN 1 ELSE a.quantity)

\* the add-on texts in the order of selectedAddOns, without the sort
addonsKeyUnsorted(it) ==
  [i \in DOMAIN it.selectedAddOns |-> AddOnText(it.selectedAddOns[i])]

\* selectedAddOns.map(...).sort().join(','), '' without add-ons
addonsKey(it) ==
  SortSeq([i \in DOMAIN it.selectedAddOns |-> AddOnText(it.selectedAddOns[i])],
          LAMBDA a, b : a < b)

\* item.selectedVariation?.id ?? item.selectedVariation?.name ?? ''
variationKey(v) ==
  IF v.id # Undefined THEN v.id
  ELSE IF v.name # Undefined THEN v.name
  ELSE ""

\* [name, variation, addonsKey, String(totalPrice)].join('|'); the names and
\* ids drawn here hold no '|'
itemKey(it) ==
  <<it.name, variationKey(it.selectedVariation), addonsKey(it), it.totalPrice>>

\* the for loop: heap holds the objects (the input items first, at their
\* indices), map the entries of the Map in insertion order, each a key and
\* a reference to its object; a new entry gets a copy of the item
RECURSIVE aggregateLoop(_, _, _, _)
aggregateLoop(i, n, heap, map) ==
  IF i > n THEN [heap |-> heap, map |-> map]
  ELSE LET it == heap[i]
           key == itemKey(it)
           qty == ItemQty(it)
           existing == {j \in DOMAIN map : map[j].key = key}
       IN IF existing # {}
            THEN LET ref == map[CHOOSE j \in existing : TRUE].ref
                 IN aggregateLoop(i + 1, n, [heap EXCEPT ![ref].quantity = @ + qty], map)
            ELSE aggregateLoop(i + 1, n,
                               Append(heap, [it EXCEPT !.quantity = qty]),
                               Append(map, [key |-> key, ref |-> Len(heap) + 1]))

\* the value returned, and the input array as the call leaves it
aggregateOrderItems(items) ==
  IF Len(items) = 0 THEN [out |-> <<>>, items |-> items]
  ELSE LET r == aggregateLoop(1, Len(items), items, <<>>)
       IN [out |-> [j \in DOMAIN r.map |-> r.heap[r.map[j].ref]],
           items |-> SubSeq(r.heap, 1, Len(items))]

aggFrame == <<storeVars, opVars, host, variant, persisted, hostVars, dlg, inflight,
              histVars, loadedWith, now, lastFetchRef, pollDue, pushTimers,
              currentPage, pageReads, lastFetch, pushes, userFetches, isAdminRoute,
              chan, hook, priceVars, formVars>>

\* an order is placed with one more it
AddOrderItem(it) ==
  /\ ~agg.viewed
  /\ Len(agg.items) < MaxItems
  /\ agg' = [agg EXCEPT !.items = Append(@, it)]
  /\ ev' = "addOrderItem"
  /\ UNCHANGED aggFrame

\* OrderManager renders the details of the selected order
ViewOrderDetails ==
  /\ ~agg.viewed
  /\ LET r == aggregateOrderItems(agg.items)
     IN agg' = [agg EXCEPT !.viewed = TRUE, !.shown = r.out, !.itemsAfter = r.items]
  /\ ev' = "viewOrderDetails"
  /\ UNCHANGED aggFrame

InitAggregate ==
  /\ orders = [i \in OrderIds |-> NoOrder]
  /\ nextId = 1
  /\ createRet = NullRet
  /\ createArg = NoStatus /\ createData = NoData
  /\ opOrders = [p \in Ops |-> AbsentPage]
  /\ opError = [p \in Ops |-> FALSE]
  /\ rejectingOrderId = [p \in Ops |-> NoId]
  /\ opInflight = {}
  /\ ev = "init"
  /\ host = "ctx" /\ variant = 1
  /\ InitCustomerIdle
  /\ InitPollIdle
  /\ InitPriceIdle
  /\ hook = "paged"

NextAggregate ==
  \/ \E it \in CartItems : AddOrderItem(it)
  \/ ViewOrderDetails

SpecAggregate == InitAggregate /\ [][NextAggregate]_vars

RECURSIVE TotalQuantity(_, _)
TotalQuantity(items, k) ==
  IF k = 0 THEN 0 ELSE ItemQty(items[k]) + TotalQuantity(items, k - 1)

RECURSIVE TotalAmount(_, _)
TotalAmount(items, k) ==
  IF k = 0 THEN 0
  ELSE items[k].totalPrice * ItemQty(items[k]) + TotalAmount(items, k - 1)

\* the add-ons of an it as a set of (id, quantity) pairs
AddOnSet(it) ==
  {<<it.selectedAddOns[i].id,
     IF it.selectedAddOns[i].quantity = Unset THEN 1
     ELSE it.selectedAddOns[i].quantity>> : i \in DOMAIN it.selectedAddOns}

\* same name, variation, add-on set and unit price
SameLine(a, b) ==
  /\ a.name = b.name
  /\ a.selectedVariation = b.selectedVariation
  /\ AddOnSet(a) = AddOnSet(b)
  /\ a.totalPrice = b.totalPrice

RECURSIVE QuantityOfLine(_, _, _)
QuantityOfLine(items, k, e) ==
  IF k = 0 THEN 0
  ELSE (IF SameLine(items[k], e) THEN ItemQty(items[k]) ELSE 0)
         + QuantityOfLine(items, k - 1, e)

\* C27: what the details show is the order's items merged by name, variation,
\* add-on set and unit price: one entry per such line with the summed
\* quantity, total quantity and total amount kept, the input left as it was,
\* and aggregating the result again changes nothing
C27_AggregateMergesLines ==
  agg.viewed =>
    /\ TotalQuantity(agg.shown, Len(agg.shown)) = TotalQuantity(agg.items, Len(agg.items))
    /\ TotalAmount(agg.shown, Len(agg.shown)) = TotalAmount(agg.items, Len(agg.items))
    /\ \A i \in DOMAIN agg.items : \E j \in DOMAIN agg.shown : SameLine(agg.items[i], agg.shown[j])
    /\ \A j, k \in DOMAIN agg.shown : SameLine(agg.shown[j], agg.shown[k]) => j = k
    /\ \A j \in DOMAIN agg.shown :
         agg.shown[j].quantity = QuantityOfLine(agg.items, Len(agg.items), agg.shown[j])
    /\ ((\A i \in DOMAIN agg.items : agg.items[i] = agg.items[1] /\ agg.items[i].quantity = 1)
          /\ agg.items # <<>>
          => Len(agg.shown) = 1 /\ agg.shown[1].quantity = Len(agg.items))
    /\ agg.itemsAfter = agg.items
    /\ aggregateOrderItems(agg.shown).out = agg.shown

\* two items of one line, their add-ons listed in different orders and one
\* quantity left undefined, are shown as one entry of quantity 2
C27_Witness ==
  /\ agg.viewed
  /\ Len(agg.items) = MaxItems
  /\ agg.items[1].selectedAddOns # agg.items[2].selectedAddOns
  /\ agg.items[1].quantity = Unset
  /\ Len(agg.shown) = 1
  /\ agg.shown[1].quantity = 2

(***************************************************************************)
(* The customer places a second order while the first is still tracked     *)
(***************************************************************************)
\* handlePlaceOrder in a card of the page, for every order the store can hold
HandlePlaceOrderAgain(storeOk) == PlaceOrder(storeOk, MaxOrders)

NextReorder ==
  \/ \E id \in OrderIds : OperatorWrite(id, "approved", NoReason)
  \/ CheckPendingOrder
  \/ \E r \in inflight : CheckPendingOrderResponse(r, TRUE)
  \/ CheckProcessingOrder
  \/ \E r \in inflight : CheckProcessingOrderResponse(r, TRUE)
  \/ BannerView
  \/ \E r \in inflight : HandleModalCloseResponse(r, TRUE)
  \/ HandleCardClick
  \/ HandleClose
  \/ \E storeOk \in BOOLEAN : HandlePlaceOrderAgain(storeOk)
  \/ \E r \in inflight : ItemOnCloseResponse(r, TRUE)
  \/ CloseClick
  \/ \E r \in inflight : LoadOrderResponse(r, TRUE)
  \/ PollTick

SpecReorder == InitCustomer /\ [][NextReorder]_vars

\* C28: closing the dialog of order A, whatever it shows, leaves the persisted
\* id alone when that id belongs to a different order B
C28_CloseKeepsOtherOrder ==
  [][(/\ ev' \in {"onSucceededClose", "onClose"}
      /\ CurProps.orderId # NoId
      /\ persisted \notin {NoId, CurProps.orderId})
       => persisted' = persisted]_vars

\* the dialog of an order still in progress is closed while its tracker keeps
\* the order: the customer has dismissed it
Dismissed ==
  /\ ~CurProps.isOpen
  /\ CurProps.orderId # NoId
  /\ IsInProgress(orders[CurProps.orderId].status)

\* what the customer does to see the dialog: the banner's View button, or
\* placing the order
CustomerOpens == {"bannerView", "setOrderPlaced", "handlePlaceOrder"}

\* C29: a dismissed dialog of an order in progress is opened again for that
\* order by the customer only, never by a check of the persisted id
C29_DismissedStaysClosed ==
  [][(/\ Dismissed
      /\ CurProps'.isOpen
      /\ CurProps'.orderId = CurProps.orderId)
       => ev' \in CustomerOpens]_vars

====
